---- MODULE Spec2Model ----
(***************************************************************************)
(* Model of the content parser bot (src/main.py): the configuration with   *)
(* its persisted copy, the operator handlers of the aiogram dispatcher,    *)
(* and the parsing loop task with its two concurrent scan branches.        *)
(*                                                                         *)
(* A Python string is the sequence of the code points of its characters.   *)
(* Every action is the code that runs between two awaits of one coroutine: *)
(* the asyncio event loop switches coroutines only at an await.            *)
(***************************************************************************)
EXTENDS Integers, Sequences, FiniteSets, TLC

VARIABLES
    config,                  \* the global Config object (main.py:68)
    disk,                    \* content of config.json, or NoFile
    parsing_active,          \* main.py:69
    parsing_task,            \* main.py:70: slot of the task object, 0 = None
    tasks,                   \* the parsing_loop task objects ever created
    handlers,                \* handler coroutines suspended at an await
    reply,                   \* history: the refusal of the last Start or Stop, or "ok"
    loaded_hashes,           \* history: the ledger as loaded at startup
    delivered,               \* history: fingerprints whose publish call (the
                             \* first one, not the fallback) has returned
    recorded_texts,          \* history: raw texts of recorded no-media items
    flooded,                 \* history: the fingerprint last rate limited and not
                             \* recorded since, or None
    ended,                   \* history: how the loop task ended since the last Start
    logged,                  \* history: the logger.error / logger.warning record
                             \* the last step of a scan wrote, or NoLog
    call,                    \* a function of the program applied on its own: the
                             \* function and its arguments, or NoCall
    result                   \* <<v>> once the call has returned v, <<>> before

vars == <<config, disk, parsing_active, parsing_task, tasks, handlers, reply,
          loaded_hashes, delivered, recorded_texts, flooded, ended, logged,
          call, result>>

-----------------------------------------------------------------------------
(* Bounds of the model *)

\* loop task objects that may be alive at once
MaxTasks == 2

\* handler coroutines that may be suspended at once while the loop runs
MaxHandlers == 1

\* handler coroutines that may be suspended at once in the operator dialogue
MaxRacing == 2

-----------------------------------------------------------------------------
(* Program constants *)

\* iter_messages(channel, limit=50)
ScanLimit == 50

\* snippet = text[:1000]
SnippetLen == 1000

\* message_text[:4000], clean_content[:4000]
MaxMessageLen == 4000

\* caption=clean_content[:1024]
MaxCaptionLen == 1024

\* sleep_time = 60 if parsing_active else 5
SleepRunning == 60

WindDownSleep == 5

-----------------------------------------------------------------------------
(* Python strings *)

\* A str is the sequence of the code points of its characters.  The tables
\* of this section are those of the Unicode database of the interpreter that
\* runs the program (CPython 3.11, Unicode 14.0).

\* None, as a value no Python string equals: no character has a negative code
None == <<-1>>

Take(s, n) == SubSeq(s, 1, IF n < Len(s) THEN n ELSE Len(s))

\* s[i:] with a 1-based first index
DropTo(s, i) == SubSeq(s, i, Len(s))

Range(s) == {s[i] : i \in 1..Len(s)}

\* ord(c) of the characters a string of this module can name: printable
\* ASCII but the grave accent, in the order of the codes from 32 and from 97,
\* and four control characters
Ord ==
    LET upto95 == <<
                " ", "!", "\"", "#", "$", "%", "&", "'", "(", ")", "*", "+",
                ",", "-", ".", "/", "0", "1", "2", "3", "4", "5", "6", "7",
                "8", "9", ":", ";", "<", "=", ">", "?", "@", "A", "B", "C",
                "D", "E", "F", "G", "H", "I", "J", "K", "L", "M", "N", "O",
                "P", "Q", "R", "S", "T", "U", "V", "W", "X", "Y", "Z", "[",
                "\\", "]", "^", "_" >>
        from97 == <<
                "a", "b", "c", "d", "e", "f", "g", "h", "i", "j", "k", "l",
                "m", "n", "o", "p", "q", "r", "s", "t", "u", "v", "w", "x",
                "y", "z", "{", "|", "}", "~" >> IN
    [c \in Range(upto95) \cup Range(from97) \cup {"\t", "\n", "\f", "\r"} |->
        CASE c = "\t" -> 9
          [] c = "\n" -> 10
          [] c = "\f" -> 12
          [] c = "\r" -> 13
          [] c \in Range(upto95) -> 31 + (CHOOSE i \in 1..Len(upto95) : upto95[i] = c)
          [] OTHER -> 96 + (CHOOSE i \in 1..Len(from97) : from97[i] = c)]

\* the str whose characters are those of s, a string literal of the program
Str(s) == [i \in 1..Len(s) |-> Ord[s[i]]]

\* s.startswith(p) at 1-based position i
MatchAt(s, i, p) ==
    /\ i + Len(p) - 1 <= Len(s)
    /\ \A k \in 1..Len(p) : s[i + k - 1] = p[k]

StartsWith(s, p) == MatchAt(s, 1, p)

\* p in s
Contains(s, p) == \E i \in 1..(Len(s) + 1) : MatchAt(s, i, p)

\* the characters str.strip() removes and \s matches (str.isspace): \t \n
\* \x0b \x0c \r, \x1c to \x1f, space, \x85, \xa0 and the spaces of Unicode
Whitespace ==
    (9..13) \cup (28..32) \cup {133, 160, 5760} \cup (8192..8202)
        \cup {8232, 8233, 8239, 8287, 12288}

\* the simple lower-case mapping of every character that has one, as runs
\* <<first, last, step, delta>>: each step-th character from first to last
\* maps to the character delta code points further
RunTable(runs) ==
    [c \in UNION { {r[1] + k * r[3] : k \in 0..((r[2] - r[1]) \div r[3])} :
                     r \in runs } |->
        c + (CHOOSE r \in runs :
                 c >= r[1] /\ c <= r[2] /\ (c - r[1]) % r[3] = 0)[4]]

LowerTable ==
    RunTable({
            <<65, 90, 1, 32>>, <<192, 214, 1, 32>>, <<216, 222, 1, 32>>,
            <<256, 302, 2, 1>>, <<304, 304, 1, -199>>, <<306, 310, 2, 1>>,
            <<313, 327, 2, 1>>, <<330, 374, 2, 1>>, <<376, 376, 1, -121>>,
            <<377, 381, 2, 1>>, <<385, 385, 1, 210>>, <<386, 388, 2, 1>>,
            <<390, 390, 1, 206>>, <<391, 391, 1, 1>>, <<393, 394, 1, 205>>,
            <<395, 395, 1, 1>>, <<398, 398, 1, 79>>, <<399, 399, 1, 202>>,
            <<400, 400, 1, 203>>, <<401, 401, 1, 1>>, <<403, 403, 1, 205>>,
            <<404, 404, 1, 207>>, <<406, 406, 1, 211>>, <<407, 407, 1, 209>>,
            <<408, 408, 1, 1>>, <<412, 412, 1, 211>>, <<413, 413, 1, 213>>,
            <<415, 415, 1, 214>>, <<416, 420, 2, 1>>, <<422, 422, 1, 218>>,
            <<423, 423, 1, 1>>, <<425, 425, 1, 218>>, <<428, 428, 1, 1>>,
            <<430, 430, 1, 218>>, <<431, 431, 1, 1>>, <<433, 434, 1, 217>>,
            <<435, 437, 2, 1>>, <<439, 439, 1, 219>>, <<440, 440, 1, 1>>,
            <<444, 444, 1, 1>>, <<452, 452, 1, 2>>, <<453, 453, 1, 1>>,
            <<455, 455, 1, 2>>, <<456, 456, 1, 1>>, <<458, 458, 1, 2>>,
            <<459, 475, 2, 1>>, <<478, 494, 2, 1>>, <<497, 497, 1, 2>>,
            <<498, 500, 2, 1>>, <<502, 502, 1, -97>>, <<503, 503, 1, -56>>,
            <<504, 542, 2, 1>>, <<544, 544, 1, -130>>, <<546, 562, 2, 1>>,
            <<570, 570, 1, 10795>>, <<571, 571, 1, 1>>, <<573, 573, 1, -163>>,
            <<574, 574, 1, 10792>>, <<577, 577, 1, 1>>, <<579, 579, 1, -195>>,
            <<580, 580, 1, 69>>, <<581, 581, 1, 71>>, <<582, 590, 2, 1>>,
            <<880, 882, 2, 1>>, <<886, 886, 1, 1>>, <<895, 895, 1, 116>>,
            <<902, 902, 1, 38>>, <<904, 906, 1, 37>>, <<908, 908, 1, 64>>,
            <<910, 911, 1, 63>>, <<913, 929, 1, 32>>, <<931, 939, 1, 32>>,
            <<975, 975, 1, 8>>, <<984, 1006, 2, 1>>, <<1012, 1012, 1, -60>>,
            <<1015, 1015, 1, 1>>, <<1017, 1017, 1, -7>>, <<1018, 1018, 1, 1>>,
            <<1021, 1023, 1, -130>>, <<1024, 1039, 1, 80>>,
            <<1040, 1071, 1, 32>>, <<1120, 1152, 2, 1>>, <<1162, 1214, 2, 1>>,
            <<1216, 1216, 1, 15>>, <<1217, 1229, 2, 1>>, <<1232, 1326, 2, 1>>,
            <<1329, 1366, 1, 48>>, <<4256, 4293, 1, 7264>>,
            <<4295, 4295, 1, 7264>>, <<4301, 4301, 1, 7264>>,
            <<5024, 5103, 1, 38864>>, <<5104, 5109, 1, 8>>,
            <<7312, 7354, 1, -3008>>, <<7357, 7359, 1, -3008>>,
            <<7680, 7828, 2, 1>>, <<7838, 7838, 1, -7615>>,
            <<7840, 7934, 2, 1>>, <<7944, 7951, 1, -8>>,
            <<7960, 7965, 1, -8>>, <<7976, 7983, 1, -8>>,
            <<7992, 7999, 1, -8>>, <<8008, 8013, 1, -8>>,
            <<8025, 8031, 2, -8>>, <<8040, 8047, 1, -8>>,
            <<8072, 8079, 1, -8>>, <<8088, 8095, 1, -8>>,
            <<8104, 8111, 1, -8>>, <<8120, 8121, 1, -8>>,
            <<8122, 8123, 1, -74>>, <<8124, 8124, 1, -9>>,
            <<8136, 8139, 1, -86>>, <<8140, 8140, 1, -9>>,
            <<8152, 8153, 1, -8>>, <<8154, 8155, 1, -100>>,
            <<8168, 8169, 1, -8>>, <<8170, 8171, 1, -112>>,
            <<8172, 8172, 1, -7>>, <<8184, 8185, 1, -128>>,
            <<8186, 8187, 1, -126>>, <<8188, 8188, 1, -9>>,
            <<8486, 8486, 1, -7517>>, <<8490, 8490, 1, -8383>>,
            <<8491, 8491, 1, -8262>>, <<8498, 8498, 1, 28>>,
            <<8544, 8559, 1, 16>>, <<8579, 8579, 1, 1>>,
            <<9398, 9423, 1, 26>>, <<11264, 11311, 1, 48>>,
            <<11360, 11360, 1, 1>>, <<11362, 11362, 1, -10743>>,
            <<11363, 11363, 1, -3814>>, <<11364, 11364, 1, -10727>>,
            <<11367, 11371, 2, 1>>, <<11373, 11373, 1, -10780>>,
            <<11374, 11374, 1, -10749>>, <<11375, 11375, 1, -10783>>,
            <<11376, 11376, 1, -10782>>, <<11378, 11378, 1, 1>>,
            <<11381, 11381, 1, 1>>, <<11390, 11391, 1, -10815>>,
            <<11392, 11490, 2, 1>>, <<11499, 11501, 2, 1>>,
            <<11506, 11506, 1, 1>>, <<42560, 42604, 2, 1>>,
            <<42624, 42650, 2, 1>>, <<42786, 42798, 2, 1>>,
            <<42802, 42862, 2, 1>>, <<42873, 42875, 2, 1>>,
            <<42877, 42877, 1, -35332>>, <<42878, 42886, 2, 1>>,
            <<42891, 42891, 1, 1>>, <<42893, 42893, 1, -42280>>,
            <<42896, 42898, 2, 1>>, <<42902, 42920, 2, 1>>,
            <<42922, 42922, 1, -42308>>, <<42923, 42923, 1, -42319>>,
            <<42924, 42924, 1, -42315>>, <<42925, 42925, 1, -42305>>,
            <<42926, 42926, 1, -42308>>, <<42928, 42928, 1, -42258>>,
            <<42929, 42929, 1, -42282>>, <<42930, 42930, 1, -42261>>,
            <<42931, 42931, 1, 928>>, <<42932, 42946, 2, 1>>,
            <<42948, 42948, 1, -48>>, <<42949, 42949, 1, -42307>>,
            <<42950, 42950, 1, -35384>>, <<42951, 42953, 2, 1>>,
            <<42960, 42960, 1, 1>>, <<42966, 42968, 2, 1>>,
            <<42997, 42997, 1, 1>>, <<65313, 65338, 1, 32>>,
            <<66560, 66599, 1, 40>>, <<66736, 66771, 1, 40>>,
            <<66928, 66938, 1, 39>>, <<66940, 66954, 1, 39>>,
            <<66956, 66962, 1, 39>>, <<66964, 66965, 1, 39>>,
            <<68736, 68786, 1, 64>>, <<71840, 71871, 1, 32>>,
            <<93760, 93791, 1, 32>>, <<125184, 125217, 1, 34>> })

\* the lower-case letter of one character (the mapping re.IGNORECASE uses)
LowerChar(c) == IF c \in DOMAIN LowerTable THEN LowerTable[c] ELSE c

\* the case-ignorable characters (marks, modifier letters, some punctuation),
\* which str.lower() skips around a capital sigma, as ranges <<first, last>>
CaseIgnorable ==
    UNION { r[1]..r[2] : r \in {
        <<39, 39>>, <<46, 46>>, <<58, 58>>, <<94, 94>>, <<96, 96>>,
        <<168, 168>>, <<173, 173>>, <<175, 175>>, <<180, 180>>, <<183, 184>>,
        <<688, 879>>, <<884, 885>>, <<890, 890>>, <<900, 901>>, <<903, 903>>,
        <<1155, 1161>>, <<1369, 1369>>, <<1375, 1375>>, <<1425, 1469>>,
        <<1471, 1471>>, <<1473, 1474>>, <<1476, 1477>>, <<1479, 1479>>,
        <<1524, 1524>>, <<1536, 1541>>, <<1552, 1562>>, <<1564, 1564>>,
        <<1600, 1600>>, <<1611, 1631>>, <<1648, 1648>>, <<1750, 1757>>,
        <<1759, 1768>>, <<1770, 1773>>, <<1807, 1807>>, <<1809, 1809>>,
        <<1840, 1866>>, <<1958, 1968>>, <<2027, 2037>>, <<2042, 2042>>,
        <<2045, 2045>>, <<2070, 2093>>, <<2137, 2139>>, <<2184, 2184>>,
        <<2192, 2193>>, <<2200, 2207>>, <<2249, 2306>>, <<2362, 2362>>,
        <<2364, 2364>>, <<2369, 2376>>, <<2381, 2381>>, <<2385, 2391>>,
        <<2402, 2403>>, <<2417, 2417>>, <<2433, 2433>>, <<2492, 2492>>,
        <<2497, 2500>>, <<2509, 2509>>, <<2530, 2531>>, <<2558, 2558>>,
        <<2561, 2562>>, <<2620, 2620>>, <<2625, 2626>>, <<2631, 2632>>,
        <<2635, 2637>>, <<2641, 2641>>, <<2672, 2673>>, <<2677, 2677>>,
        <<2689, 2690>>, <<2748, 2748>>, <<2753, 2757>>, <<2759, 2760>>,
        <<2765, 2765>>, <<2786, 2787>>, <<2810, 2815>>, <<2817, 2817>>,
        <<2876, 2876>>, <<2879, 2879>>, <<2881, 2884>>, <<2893, 2893>>,
        <<2901, 2902>>, <<2914, 2915>>, <<2946, 2946>>, <<3008, 3008>>,
        <<3021, 3021>>, <<3072, 3072>>, <<3076, 3076>>, <<3132, 3132>>,
        <<3134, 3136>>, <<3142, 3144>>, <<3146, 3149>>, <<3157, 3158>>,
        <<3170, 3171>>, <<3201, 3201>>, <<3260, 3260>>, <<3263, 3263>>,
        <<3270, 3270>>, <<3276, 3277>>, <<3298, 3299>>, <<3328, 3329>>,
        <<3387, 3388>>, <<3393, 3396>>, <<3405, 3405>>, <<3426, 3427>>,
        <<3457, 3457>>, <<3530, 3530>>, <<3538, 3540>>, <<3542, 3542>>,
        <<3633, 3633>>, <<3636, 3642>>, <<3654, 3662>>, <<3761, 3761>>,
        <<3764, 3772>>, <<3782, 3782>>, <<3784, 3789>>, <<3864, 3865>>,
        <<3893, 3893>>, <<3895, 3895>>, <<3897, 3897>>, <<3953, 3966>>,
        <<3968, 3972>>, <<3974, 3975>>, <<3981, 3991>>, <<3993, 4028>>,
        <<4038, 4038>>, <<4141, 4144>>, <<4146, 4151>>, <<4153, 4154>>,
        <<4157, 4158>>, <<4184, 4185>>, <<4190, 4192>>, <<4209, 4212>>,
        <<4226, 4226>>, <<4229, 4230>>, <<4237, 4237>>, <<4253, 4253>>,
        <<4348, 4348>>, <<4957, 4959>>, <<5906, 5908>>, <<5938, 5939>>,
        <<5970, 5971>>, <<6002, 6003>>, <<6068, 6069>>, <<6071, 6077>>,
        <<6086, 6086>>, <<6089, 6099>>, <<6103, 6103>>, <<6109, 6109>>,
        <<6155, 6159>>, <<6211, 6211>>, <<6277, 6278>>, <<6313, 6313>>,
        <<6432, 6434>>, <<6439, 6440>>, <<6450, 6450>>, <<6457, 6459>>,
        <<6679, 6680>>, <<6683, 6683>>, <<6742, 6742>>, <<6744, 6750>>,
        <<6752, 6752>>, <<6754, 6754>>, <<6757, 6764>>, <<6771, 6780>>,
        <<6783, 6783>>, <<6823, 6823>>, <<6832, 6862>>, <<6912, 6915>>,
        <<6964, 6964>>, <<6966, 6970>>, <<6972, 6972>>, <<6978, 6978>>,
        <<7019, 7027>>, <<7040, 7041>>, <<7074, 7077>>, <<7080, 7081>>,
        <<7083, 7085>>, <<7142, 7142>>, <<7144, 7145>>, <<7149, 7149>>,
        <<7151, 7153>>, <<7212, 7219>>, <<7222, 7223>>, <<7288, 7293>>,
        <<7376, 7378>>, <<7380, 7392>>, <<7394, 7400>>, <<7405, 7405>>,
        <<7412, 7412>>, <<7416, 7417>>, <<7468, 7530>>, <<7544, 7544>>,
        <<7579, 7679>>, <<8125, 8125>>, <<8127, 8129>>, <<8141, 8143>>,
        <<8157, 8159>>, <<8173, 8175>>, <<8189, 8190>>, <<8203, 8207>>,
        <<8216, 8217>>, <<8228, 8228>>, <<8231, 8231>>, <<8234, 8238>>,
        <<8288, 8292>>, <<8294, 8303>>, <<8305, 8305>>, <<8319, 8319>>,
        <<8336, 8348>>, <<8400, 8432>>, <<11388, 11389>>, <<11503, 11505>>,
        <<11631, 11631>>, <<11647, 11647>>, <<11744, 11775>>,
        <<11823, 11823>>, <<12293, 12293>>, <<12330, 12333>>,
        <<12337, 12341>>, <<12347, 12347>>, <<12441, 12446>>,
        <<12540, 12542>>, <<40981, 40981>>, <<42232, 42237>>,
        <<42508, 42508>>, <<42607, 42610>>, <<42612, 42621>>,
        <<42623, 42623>>, <<42652, 42655>>, <<42736, 42737>>,
        <<42752, 42785>>, <<42864, 42864>>, <<42888, 42890>>,
        <<42994, 42996>>, <<43000, 43001>>, <<43010, 43010>>,
        <<43014, 43014>>, <<43019, 43019>>, <<43045, 43046>>,
        <<43052, 43052>>, <<43204, 43205>>, <<43232, 43249>>,
        <<43263, 43263>>, <<43302, 43309>>, <<43335, 43345>>,
        <<43392, 43394>>, <<43443, 43443>>, <<43446, 43449>>,
        <<43452, 43453>>, <<43471, 43471>>, <<43493, 43494>>,
        <<43561, 43566>>, <<43569, 43570>>, <<43573, 43574>>,
        <<43587, 43587>>, <<43596, 43596>>, <<43632, 43632>>,
        <<43644, 43644>>, <<43696, 43696>>, <<43698, 43700>>,
        <<43703, 43704>>, <<43710, 43711>>, <<43713, 43713>>,
        <<43741, 43741>>, <<43756, 43757>>, <<43763, 43764>>,
        <<43766, 43766>>, <<43867, 43871>>, <<43881, 43883>>,
        <<44005, 44005>>, <<44008, 44008>>, <<44013, 44013>>,
        <<64286, 64286>>, <<64434, 64450>>, <<65024, 65039>>,
        <<65043, 65043>>, <<65056, 65071>>, <<65106, 65106>>,
        <<65109, 65109>>, <<65279, 65279>>, <<65287, 65287>>,
        <<65294, 65294>>, <<65306, 65306>>, <<65342, 65342>>,
        <<65344, 65344>>, <<65392, 65392>>, <<65438, 65439>>,
        <<65507, 65507>>, <<65529, 65531>>, <<66045, 66045>>,
        <<66272, 66272>>, <<66422, 66426>>, <<67456, 67461>>,
        <<67463, 67504>>, <<67506, 67514>>, <<68097, 68099>>,
        <<68101, 68102>>, <<68108, 68111>>, <<68152, 68154>>,
        <<68159, 68159>>, <<68325, 68326>>, <<68900, 68903>>,
        <<69291, 69292>>, <<69446, 69456>>, <<69506, 69509>>,
        <<69633, 69633>>, <<69688, 69702>>, <<69744, 69744>>,
        <<69747, 69748>>, <<69759, 69761>>, <<69811, 69814>>,
        <<69817, 69818>>, <<69821, 69821>>, <<69826, 69826>>,
        <<69837, 69837>>, <<69888, 69890>>, <<69927, 69931>>,
        <<69933, 69940>>, <<70003, 70003>>, <<70016, 70017>>,
        <<70070, 70078>>, <<70089, 70092>>, <<70095, 70095>>,
        <<70191, 70193>>, <<70196, 70196>>, <<70198, 70199>>,
        <<70206, 70206>>, <<70367, 70367>>, <<70371, 70378>>,
        <<70400, 70401>>, <<70459, 70460>>, <<70464, 70464>>,
        <<70502, 70508>>, <<70512, 70516>>, <<70712, 70719>>,
        <<70722, 70724>>, <<70726, 70726>>, <<70750, 70750>>,
        <<70835, 70840>>, <<70842, 70842>>, <<70847, 70848>>,
        <<70850, 70851>>, <<71090, 71093>>, <<71100, 71101>>,
        <<71103, 71104>>, <<71132, 71133>>, <<71219, 71226>>,
        <<71229, 71229>>, <<71231, 71232>>, <<71339, 71339>>,
        <<71341, 71341>>, <<71344, 71349>>, <<71351, 71351>>,
        <<71453, 71455>>, <<71458, 71461>>, <<71463, 71467>>,
        <<71727, 71735>>, <<71737, 71738>>, <<71995, 71996>>,
        <<71998, 71998>>, <<72003, 72003>>, <<72148, 72151>>,
        <<72154, 72155>>, <<72160, 72160>>, <<72193, 72202>>,
        <<72243, 72248>>, <<72251, 72254>>, <<72263, 72263>>,
        <<72273, 72278>>, <<72281, 72283>>, <<72330, 72342>>,
        <<72344, 72345>>, <<72752, 72758>>, <<72760, 72765>>,
        <<72767, 72767>>, <<72850, 72871>>, <<72874, 72880>>,
        <<72882, 72883>>, <<72885, 72886>>, <<73009, 73014>>,
        <<73018, 73018>>, <<73020, 73021>>, <<73023, 73029>>,
        <<73031, 73031>>, <<73104, 73105>>, <<73109, 73109>>,
        <<73111, 73111>>, <<73459, 73460>>, <<78896, 78904>>,
        <<92912, 92916>>, <<92976, 92982>>, <<92992, 92995>>,
        <<94031, 94031>>, <<94095, 94111>>, <<94176, 94177>>,
        <<94179, 94180>>, <<110576, 110579>>, <<110581, 110587>>,
        <<110589, 110590>>, <<113821, 113822>>, <<113824, 113827>>,
        <<118528, 118573>>, <<118576, 118598>>, <<119143, 119145>>,
        <<119155, 119170>>, <<119173, 119179>>, <<119210, 119213>>,
        <<119362, 119364>>, <<121344, 121398>>, <<121403, 121452>>,
        <<121461, 121461>>, <<121476, 121476>>, <<121499, 121503>>,
        <<121505, 121519>>, <<122880, 122886>>, <<122888, 122904>>,
        <<122907, 122913>>, <<122915, 122916>>, <<122918, 122922>>,
        <<123184, 123197>>, <<123566, 123566>>, <<123628, 123631>>,
        <<125136, 125142>>, <<125252, 125259>>, <<127995, 127999>>,
        <<917505, 917505>>, <<917536, 917631>>, <<917760, 917999>> } }

\* the cased letters that are not case-ignorable, as ranges <<first, last>>
CasedLetters ==
    UNION { r[1]..r[2] : r \in {
        <<65, 90>>, <<97, 122>>, <<170, 170>>, <<181, 181>>, <<186, 186>>,
        <<192, 214>>, <<216, 246>>, <<248, 442>>, <<444, 447>>, <<452, 659>>,
        <<661, 687>>, <<880, 883>>, <<886, 887>>, <<891, 893>>, <<895, 895>>,
        <<902, 902>>, <<904, 906>>, <<908, 908>>, <<910, 929>>, <<931, 1013>>,
        <<1015, 1153>>, <<1162, 1327>>, <<1329, 1366>>, <<1376, 1416>>,
        <<4256, 4293>>, <<4295, 4295>>, <<4301, 4301>>, <<4304, 4346>>,
        <<4349, 4351>>, <<5024, 5109>>, <<5112, 5117>>, <<7296, 7304>>,
        <<7312, 7354>>, <<7357, 7359>>, <<7424, 7467>>, <<7531, 7543>>,
        <<7545, 7578>>, <<7680, 7957>>, <<7960, 7965>>, <<7968, 8005>>,
        <<8008, 8013>>, <<8016, 8023>>, <<8025, 8025>>, <<8027, 8027>>,
        <<8029, 8029>>, <<8031, 8061>>, <<8064, 8116>>, <<8118, 8124>>,
        <<8126, 8126>>, <<8130, 8132>>, <<8134, 8140>>, <<8144, 8147>>,
        <<8150, 8155>>, <<8160, 8172>>, <<8178, 8180>>, <<8182, 8188>>,
        <<8450, 8450>>, <<8455, 8455>>, <<8458, 8467>>, <<8469, 8469>>,
        <<8473, 8477>>, <<8484, 8484>>, <<8486, 8486>>, <<8488, 8488>>,
        <<8490, 8493>>, <<8495, 8500>>, <<8505, 8505>>, <<8508, 8511>>,
        <<8517, 8521>>, <<8526, 8526>>, <<8544, 8575>>, <<8579, 8580>>,
        <<9398, 9449>>, <<11264, 11387>>, <<11390, 11492>>, <<11499, 11502>>,
        <<11506, 11507>>, <<11520, 11557>>, <<11559, 11559>>,
        <<11565, 11565>>, <<42560, 42605>>, <<42624, 42651>>,
        <<42786, 42863>>, <<42865, 42887>>, <<42891, 42894>>,
        <<42896, 42954>>, <<42960, 42961>>, <<42963, 42963>>,
        <<42965, 42969>>, <<42997, 42998>>, <<43002, 43002>>,
        <<43824, 43866>>, <<43872, 43880>>, <<43888, 43967>>,
        <<64256, 64262>>, <<64275, 64279>>, <<65313, 65338>>,
        <<65345, 65370>>, <<66560, 66639>>, <<66736, 66771>>,
        <<66776, 66811>>, <<66928, 66938>>, <<66940, 66954>>,
        <<66956, 66962>>, <<66964, 66965>>, <<66967, 66977>>,
        <<66979, 66993>>, <<66995, 67001>>, <<67003, 67004>>,
        <<68736, 68786>>, <<68800, 68850>>, <<71840, 71903>>,
        <<93760, 93823>>, <<119808, 119892>>, <<119894, 119964>>,
        <<119966, 119967>>, <<119970, 119970>>, <<119973, 119974>>,
        <<119977, 119980>>, <<119982, 119993>>, <<119995, 119995>>,
        <<119997, 120003>>, <<120005, 120069>>, <<120071, 120074>>,
        <<120077, 120084>>, <<120086, 120092>>, <<120094, 120121>>,
        <<120123, 120126>>, <<120128, 120132>>, <<120134, 120134>>,
        <<120138, 120144>>, <<120146, 120485>>, <<120488, 120512>>,
        <<120514, 120538>>, <<120540, 120570>>, <<120572, 120596>>,
        <<120598, 120628>>, <<120630, 120654>>, <<120656, 120686>>,
        <<120688, 120712>>, <<120714, 120744>>, <<120746, 120770>>,
        <<120772, 120779>>, <<122624, 122633>>, <<122635, 122654>>,
        <<125184, 125251>>, <<127280, 127305>>, <<127312, 127337>>,
        <<127344, 127369>> } }

\* the last position <= i of s holding a character outside cs, or 0
RECURSIVE SkipBack(_, _, _)
SkipBack(s, i, cs) ==
    IF i < 1 THEN 0
    ELSE IF s[i] \notin cs THEN i
    ELSE SkipBack(s, i - 1, cs)

\* the first position >= i of s holding a character of set cs, or 0
RECURSIVE FindFrom(_, _, _)
FindFrom(s, i, cs) ==
    IF i > Len(s) THEN 0
    ELSE IF s[i] \in cs THEN i
    ELSE FindFrom(s, i + 1, cs)

\* the first position >= i of s holding a character outside cs, or Len(s) + 1
RECURSIVE SkipWhile(_, _, _)
SkipWhile(s, i, cs) ==
    IF i > Len(s) THEN Len(s) + 1
    ELSE IF s[i] \notin cs THEN i
    ELSE SkipWhile(s, i + 1, cs)

\* str.lower() from position i: the simple mapping of each character, but
\* U+0130 gives i and U+0307, and a capital sigma (U+03A3) gives the final
\* sigma U+03C2 when a cased letter comes before it and none after it, the
\* case-ignorable characters skipped, and U+03C3 otherwise
RECURSIVE LowerFrom(_, _)
LowerFrom(s, i) ==
    IF i > Len(s) THEN <<>>
    ELSE LET before == SkipBack(s, i - 1, CaseIgnorable)
             after == SkipWhile(s, i + 1, CaseIgnorable)
             final == /\ before > 0
                      /\ s[before] \in CasedLetters
                      /\ (after > Len(s) \/ s[after] \notin CasedLetters)
         IN  (CASE s[i] = 304 -> <<105, 775>>
                [] s[i] = 931 -> IF final THEN <<962>> ELSE <<963>>
                [] OTHER -> <<LowerChar(s[i])>>) \o LowerFrom(s, i + 1)

\* str.lower()
Lower(s) == LowerFrom(s, 1)

\* str.strip()
RECURSIVE LStrip(_)
LStrip(s) == IF s # <<>> /\ Head(s) \in Whitespace THEN LStrip(Tail(s)) ELSE s

RECURSIVE RStrip(_)
RStrip(s) ==
    IF s # <<>> /\ s[Len(s)] \in Whitespace
    THEN RStrip(SubSeq(s, 1, Len(s) - 1))
    ELSE s

Strip(s) == RStrip(LStrip(s))

\* truthiness of a str-or-None value
Truthy(s) == s # None /\ s # <<>>

-----------------------------------------------------------------------------
(* Parsing utilities, main.py:141-164 *)

NoMatch == [end |-> 0, rep |-> <<>>]

\* r'\[([^\]]+)\]\([^\)]+\)' matched at i: the match's last position and label
MarkdownLinkAt(s, i) ==
    IF ~MatchAt(s, i, Str(<<"[">>)) THEN NoMatch
    ELSE LET j == FindFrom(s, i + 1, {Ord["]"]}) IN
         IF j < i + 2 \/ ~MatchAt(s, j + 1, Str(<<"(">>)) THEN NoMatch
         ELSE LET k == FindFrom(s, j + 2, {Ord[")"]}) IN
              IF k < j + 3 THEN NoMatch
              ELSE [end |-> k, rep |-> SubSeq(s, i + 1, j - 1)]

\* r'<a\s+href="[^"]+">([^<]+)</a>' matched at i
HtmlLinkAt(s, i) ==
    IF ~MatchAt(s, i, Str(<<"<", "a">>)) THEN NoMatch
    ELSE LET h == SkipWhile(s, i + 2, Whitespace) IN
         IF h = i + 2 \/ ~MatchAt(s, h, Str(<<"h", "r", "e", "f", "=", "\"">>)) THEN NoMatch
         ELSE LET q == FindFrom(s, h + 6, {Ord["\""]}) IN
              IF q < h + 7 \/ ~MatchAt(s, q + 1, Str(<<">">>)) THEN NoMatch
              ELSE LET t == FindFrom(s, q + 2, {Ord["<"]}) IN
                   IF t < q + 3 \/ ~MatchAt(s, t, Str(<<"<", "/", "a", ">">>)) THEN NoMatch
                   ELSE [end |-> t + 3, rep |-> SubSeq(s, q + 2, t - 1)]

\* r'https?://\S+' matched at i
UrlAt(s, i) ==
    IF ~MatchAt(s, i, Str(<<"h", "t", "t", "p">>)) THEN NoMatch
    ELSE LET c == IF MatchAt(s, i + 4, Str(<<"s", ":", "/", "/">>)) THEN i + 8
                  ELSE IF MatchAt(s, i + 4, Str(<<":", "/", "/">>)) THEN i + 7
                  ELSE 0 IN
         IF c = 0 \/ c > Len(s) \/ s[c] \in Whitespace THEN NoMatch
         ELSE LET w == FindFrom(s, c, Whitespace) IN
              [end |-> IF w = 0 THEN Len(s) ELSE w - 1, rep |-> <<>>]

\* re.sub of one of the three patterns, scanning from position i
RECURSIVE SubFrom(_, _, _)
SubFrom(kind, s, i) ==
    IF i > Len(s) THEN <<>>
    ELSE LET m == CASE kind = "markdown" -> MarkdownLinkAt(s, i)
                    [] kind = "html" -> HtmlLinkAt(s, i)
                    [] OTHER -> UrlAt(s, i) IN
         IF m.end = 0 THEN <<s[i]>> \o SubFrom(kind, s, i + 1)
         ELSE m.rep \o SubFrom(kind, s, m.end + 1)

\* the three re.sub calls in turn, then strip; each intermediate string is
\* bound as the element of a one-element set, which computes it once
remove_hyperlinks(text) ==
    IF ~Truthy(text) THEN text
    ELSE CHOOSE r \in { Strip(SubFrom("url", u, 1)) :
                          u \in { SubFrom("html", m, 1) :
                                    m \in { SubFrom("markdown", t, 1) : t \in {text} } } } : TRUE

\* the exception text.encode() raises on a text UTF-8 cannot encode, in the
\* place of the value of a call that raises it
UnicodeEncodeError == <<-7>>

\* hashlib.md5(text.encode()).hexdigest(): encode() raises on a lone surrogate
\* (U+D800 to U+DFFF); the digest is modelled as injective on its input, the
\* one property of MD5 the program relies on, and the code -3 marks a digest
get_message_hash(text) ==
    IF \E i \in 1..Len(text) : text[i] \in 55296..57343 THEN UnicodeEncodeError
    ELSE <<-3>> \o text

\* main.py:144-148
contains_keywords(text, keywords) ==
    IF ~Truthy(text) \/ keywords = <<>> THEN FALSE
    ELSE \E i \in 1..Len(keywords) : Contains(Lower(text), Lower(keywords[i]))

-----------------------------------------------------------------------------
(* The world outside the program: identifiers, channel feeds, site pages *)

ChA == Str(<<"@", "a">>)

ChB == Str(<<"@", "b">>)

SiteS == Str(<<"h", "t", "t", "p", ":", "/", "/", "s">>)

SiteT == Str(<<"h", "t", "t", "p", ":", "/", "/", "t">>)

\* str(msg.media): "None" without media, else the repr of the media object,
\* here one opaque letter per kind of media, of a negative code
MediaStr(media) ==
    CASE media = "None" -> Str(<<"N", "o", "n", "e">>)
      [] media = "Photo" -> <<-4>>
      [] media = "Document" -> <<-5>>
      [] OTHER -> <<-6>>

\* the value of msg.caption on an object that has no such attribute
NoCaption == <<-2>>

\* a message: msg.text, msg.media, and msg.caption (a str, None or NoCaption)
Msg(text, media, caption) == [text |-> text, media |-> media, caption |-> caption]

\* what userbot.iter_messages(channel, limit=50) yields, newest first
Feed(channel) ==
    IF channel = ChA
    THEN << Msg(Str(<<"B", "t", "c">>), "None", None),
            Msg(Str(<<"[", "x", "]", "(", "u", ")">>), "Photo", None) >>
    ELSE IF channel = ChB
    THEN << Msg(<<>>, "None", None) >>
    ELSE << >>

\* ' '.join(soup.stripped_strings) of the pages a site may serve
Pages == { <<>>, Str(<<"h", "i">>) }

-----------------------------------------------------------------------------
(* class Config, main.py:33-66 *)

DefaultConfig ==
    [channels |-> <<>>, sites |-> <<>>, keywords |-> <<>>,
     target_channel |-> None, sent_hashes |-> {}]

\* list.remove(x): drops the first occurrence
RECURSIVE ListRemove(_, _)
ListRemove(list, x) ==
    IF list = <<>> THEN <<>>
    ELSE IF Head(list) = x THEN Tail(list)
    ELSE <<Head(list)>> \o ListRemove(Tail(list), x)

InList(x, list) == \E i \in 1..Len(list) : list[i] = x

clean_sources(c) ==
    IF Truthy(c.target_channel) /\ InList(c.target_channel, c.channels)
    THEN [c EXCEPT !.channels = ListRemove(c.channels, c.target_channel)]
    ELSE c

NoFile == [exists |-> FALSE, data |-> DefaultConfig]

File(c) == [exists |-> TRUE, data |-> c]

\* Config.load: the file's data (sent_hashes is a JSON list, read back as a set)
load(file) == IF file.exists THEN clean_sources(file.data) ELSE DefaultConfig

\* Config.save: the in-memory object after save; the file holds the same data
save(c) == clean_sources(c)

\* config.json as the program may find it at startup: absent, or as saved by
\* an earlier run that published the two items of channel @a to @b
PersistedFiles ==
    { NoFile,
      File([channels |-> <<ChA>>, sites |-> <<>>, keywords |-> <<>>,
            target_channel |-> ChB,
            sent_hashes |-> {get_message_hash(Str(<<"B", "t", "c">>) \o MediaStr("None")),
                             get_message_hash(Str(<<"x">>) \o MediaStr("Photo"))}]) }

-----------------------------------------------------------------------------
(* Loop task objects *)

\* i, site, text and k, channel, dest are the locals of the two coroutines;
\* seen is history: the ledger held the fingerprint of the item examined last
IdleSite == [pc |-> "idle", i |-> 0, site |-> None, text |-> <<>>, seen |-> FALSE]

IdleChan == [pc |-> "idle", i |-> 0, channel |-> None, k |-> 0,
             seen |-> FALSE, dest |-> None]

FreeTask == [status |-> "free", sleep_time |-> 0, stop_mid_scan |-> FALSE,
             site |-> IdleSite, chan |-> IdleChan]

NewTask == [FreeTask EXCEPT !.status = "new"]

Alive(task) == task.status \in {"new", "gather", "sleep"}

Slots == 1..MaxTasks

\* the awaits a handler coroutine can be suspended at with configuration
\* changes still to come, with its local variable: get_target / get_source in
\* userbot.get_entity, list in the reply before list_sources_handler
PendingKinds ==
    ({"get_target", "get_source"} \X {ChA, ChB}) \cup {<<"list", None>>}

RECURSIVE BagSize(_, _)
BagSize(bag, keys) ==
    IF keys = {} THEN 0
    ELSE LET k == CHOOSE x \in keys : TRUE IN bag[k] + BagSize(bag, keys \ {k})

Suspended == BagSize(handlers, PendingKinds)

NoEnd == [how |-> "none", interrupted |-> FALSE, mid_scan |-> FALSE,
          wind_down |-> FALSE]

\* no record: the last step logged no error or warning
NoLog == <<"none", "none">>

\* a record: the place that logged (site_fetch, site_send, scan, send,
\* fallback) and the exception or condition it logged
Log(place, what) == <<place, what>>

\* the log is followed only in the runs that start with it switched on; in
\* the others logged stays LogOff
LogOff == <<"off", "off">>

Record(entry) == IF logged = LogOff THEN LogOff ELSE entry

NoCall == [fn |-> "none"]

Init ==
    /\ \E file \in PersistedFiles :
         /\ disk = file
         /\ config = load(file)
         /\ loaded_hashes = load(file).sent_hashes
    /\ parsing_active = FALSE
    /\ parsing_task = 0
    /\ tasks = [t \in Slots |-> FreeTask]
    /\ handlers = [p \in PendingKinds |-> 0]
    /\ reply = "ok"
    /\ delivered = {}
    /\ recorded_texts = {}
    /\ flooded = None
    /\ ended = NoEnd
    /\ logged = LogOff
    /\ call = NoCall
    /\ result = <<>>

-----------------------------------------------------------------------------
(* The per-item decisions of parse_sites and parse_channels *)

\* not config.keywords or contains_keywords(text, config.keywords)
KeywordGate(text, keywords) == keywords = <<>> \/ contains_keywords(text, keywords)

\* variant: the ledger is not consulted
ShouldPublishNoLedger(h, text, c) == KeywordGate(text, c.keywords)

\* variant: the keyword filter is not applied
ShouldPublishNoKeywords(h, text, c) == h \notin c.sent_hashes

\* msg_hash not in config.sent_hashes, then the keyword gate
ShouldPublish(h, text, c) ==
    h \notin c.sent_hashes /\ KeywordGate(text, c.keywords)

\* variant: the ledger is replaced by the new fingerprint
RecordHashReplacing(c, h) == [c EXCEPT !.sent_hashes = {h}]

\* config.sent_hashes.add(msg_hash)
RecordHash(c, h) == [c EXCEPT !.sent_hashes = @ \cup {h}]

\* variant: a rate-limited item is recorded
AfterFloodWaitRecords(c, h) == RecordHash(c, h)

\* except errors.FloodWaitError: log and sleep, the configuration is untouched
AfterFloodWait(c, h) == c

\* variant: an item whose publish call failed is recorded
AfterPublishErrorRecords(c, h) == RecordHash(c, h)

\* except Exception: log (and try the fallback), the configuration is untouched
AfterPublishError(c, h) == c

\* msg.text or msg.caption: the caption is read only when the text is empty,
\* and reading it raises AttributeError on an object without the attribute
CaptionRaises(m) == ~Truthy(m.text) /\ m.caption = NoCaption

\* clean_content = remove_hyperlinks(msg.text or msg.caption or ""), for a
\* message whose caption can be read
CleanContent(m) ==
    remove_hyperlinks(IF Truthy(m.text) THEN m.text
                      ELSE IF Truthy(m.caption) THEN m.caption
                      ELSE <<>>)

\* get_message_hash(clean_content + str(msg.media))
ChannelHash(m) == get_message_hash(CleanContent(m) \o MediaStr(m.media))

\* get_message_hash(text[:1000])
SiteHash(text) == get_message_hash(Take(text, SnippetLen))

\* the publisher call parse_channels makes for a message
PublishCall(m) ==
    IF m.media = "None" THEN "send_message"
    ELSE IF m.media \in {"Photo", "Document"} THEN "send_file"
    ELSE "forward_messages"

DoneSite == [IdleSite EXCEPT !.pc = "done"]

DoneChan == [IdleChan EXCEPT !.pc = "done"]

\* for site in config.sources["sites"]: the list iterator reads the live list
NextSite(b, c) ==
    IF b.i < Len(c.sites)
    THEN [pc |-> "fetch", i |-> b.i + 1, site |-> c.sites[b.i + 1], text |-> <<>>,
          seen |-> FALSE]
    ELSE DoneSite

\* for channel in config.sources["channels"], then the first __anext__
NextChannel(b, c) ==
    IF b.i < Len(c.channels)
    THEN [pc |-> "iter", i |-> b.i + 1, channel |-> c.channels[b.i + 1], k |-> 0,
          seen |-> FALSE, dest |-> None]
    ELSE DoneChan

\* variant: a failing site ends the site branch
AfterSiteErrorAborts(b, c) == DoneSite

\* resp.status != 200: continue; except Exception around one site: log, and
\* the for loop goes on
AfterSiteError(b, c) == NextSite(b, c)

\* variant: a scan that raises never finishes its branch
AfterScanErrorHangs(b, c) == [b EXCEPT !.pc = "raised"]

\* except ChannelPrivateError / ChannelInvalidError / Exception around the
\* async for of one channel: log, and the for loop over the channels goes on
AfterScanError(b, c) == NextChannel(b, c)

\* the next __anext__ of the same channel
NextItem(b) == [b EXCEPT !.pc = "iter", !.dest = None]

CurrentMsg(b) == Feed(b.channel)[b.k]

\* network calls of a task that have been started and have not returned
InFlight(task) ==
    IF task.status # "gather" THEN {}
    ELSE (IF task.site.pc \in {"fetch", "read"} THEN {"fetch"} ELSE {})
         \cup (IF task.site.pc = "send" THEN {"publish"} ELSE {})
         \cup (IF task.chan.pc = "iter" THEN {"iter_messages"} ELSE {})
         \cup (IF task.chan.pc \in {"send", "fallback"} THEN {"publish"} ELSE {})

MidScan(task) ==
    task.status = "gather" /\ task.chan.pc \in {"iter", "send", "fallback", "flood"}

-----------------------------------------------------------------------------
(* start_parsing_handler and stop_parsing_handler, main.py:341-370 *)

\* variant: no check of the destination
StartRefusalNoTargetCheck(c, active) == IF active THEN "already" ELSE "ok"

\* the two early returns of start_parsing_handler
StartRefusal(c, active) ==
    IF ~Truthy(c.target_channel) THEN "no_target"
    ELSE IF active THEN "already"
    ELSE "ok"

\* the slot of the task object asyncio.create_task returns
FreshSlot == CHOOSE t \in Slots : ~Alive(tasks[t]) /\ \A u \in Slots : u < t => Alive(tasks[u])

start_parsing_handler ==
    LET r == StartRefusal(config, parsing_active) IN
    /\ r = "ok" => \E t \in Slots : ~Alive(tasks[t])
    /\ reply' = r
    /\ IF r = "ok"
       THEN /\ parsing_active' = TRUE
            /\ tasks' = [tasks EXCEPT ![FreshSlot] = NewTask]
            /\ parsing_task' = FreshSlot
            /\ ended' = NoEnd
       ELSE UNCHANGED <<parsing_active, tasks, parsing_task, ended>>
    /\ logged' = Record(NoLog)
    /\ UNCHANGED <<config, disk, handlers,
                   loaded_hashes, delivered, recorded_texts, flooded, call, result>>

\* variant: Stop leaves the task running
TaskCancelMissing(task) == task

\* parsing_task.cancel(): CancelledError is raised at the await the task and
\* the children of its gather are suspended at; no except clause of the loop
\* catches it (it is no Exception), so the task is over
TaskCancel(task) ==
    IF Alive(task) THEN FreeTask ELSE task

\* history: a Stop seen by a task that stays alive
MarkStop(task) ==
    IF MidScan(task) THEN [task EXCEPT !.stop_mid_scan = TRUE] ELSE task

stop_parsing_handler ==
    /\ IF ~parsing_active
       THEN /\ reply' = "not_active"
            /\ UNCHANGED <<parsing_active, tasks, ended>>
       ELSE /\ reply' = "ok"
            /\ parsing_active' = FALSE
            /\ tasks' = [t \in Slots |->
                           IF t = parsing_task
                           THEN MarkStop(TaskCancel(tasks[t]))
                           ELSE MarkStop(tasks[t])]
            /\ ended' = IF parsing_task # 0 /\ Alive(tasks[parsing_task])
                           /\ ~Alive(tasks'[parsing_task])
                        THEN [how |-> "cancelled",
                              interrupted |-> InFlight(tasks[parsing_task]) # {},
                              mid_scan |-> MidScan(tasks[parsing_task]),
                              wind_down |-> FALSE]
                        ELSE ended
    /\ logged' = Record(NoLog)
    /\ UNCHANGED <<config, disk, parsing_task, handlers, loaded_hashes, delivered,
                   recorded_texts, flooded, call, result>>

-----------------------------------------------------------------------------
(* parsing_loop, main.py:292-309 *)

\* asyncio.gather(parse_sites(), parse_channels()): both children are created
EnterPass(task) ==
    [task EXCEPT !.status = "gather", !.sleep_time = 0,
                 !.site = [IdleSite EXCEPT !.pc = "start"],
                 !.chan = [IdleChan EXCEPT !.pc = "start"]]

\* sleep_time = 60 if parsing_active else 5
SleepTime(active) == IF active THEN SleepRunning ELSE WindDownSleep

Unchanged_handlers ==
    UNCHANGED <<handlers, reply, loaded_hashes, call, result>>

\* the first step of the task: parsing_active = True, the while test, the gather
LoopStart(t) ==
    /\ tasks[t].status = "new"
    /\ parsing_active' = TRUE
    /\ tasks' = [tasks EXCEPT ![t] = EnterPass(@)]
    /\ UNCHANGED <<config, disk, parsing_task, delivered, recorded_texts, flooded, ended>>
    /\ logged' = Record(NoLog)
    /\ Unchanged_handlers

\* the gather returns: choose the sleep and start it
LoopJoin(t) ==
    /\ tasks[t].status = "gather"
    /\ tasks[t].site.pc = "done"
    /\ tasks[t].chan.pc = "done"
    /\ tasks' = [tasks EXCEPT ![t] = [@ EXCEPT !.status = "sleep",
                                               !.sleep_time = SleepTime(parsing_active),
                                               !.site = IdleSite, !.chan = IdleChan]]
    /\ UNCHANGED <<config, disk, parsing_active, parsing_task, delivered,
                   recorded_texts, flooded, ended>>
    /\ logged' = Record(NoLog)
    /\ Unchanged_handlers

\* the sleep returns: the while test again
LoopWake(t) ==
    /\ tasks[t].status = "sleep"
    /\ IF parsing_active
       THEN /\ tasks' = [tasks EXCEPT ![t] = EnterPass(@)]
            /\ UNCHANGED ended
       ELSE /\ tasks' = [tasks EXCEPT ![t] = FreeTask]
            /\ ended' = [how |-> "returned", interrupted |-> FALSE,
                         mid_scan |-> tasks[t].stop_mid_scan,
                         wind_down |-> tasks[t].sleep_time = WindDownSleep]
    /\ UNCHANGED <<config, disk, parsing_active, parsing_task, delivered,
                   recorded_texts, flooded>>
    /\ logged' = Record(NoLog)
    /\ Unchanged_handlers

-----------------------------------------------------------------------------
(* parse_sites, main.py:166-215 *)

SetSite(t, b) == tasks' = [tasks EXCEPT ![t].site = b]

SetChan(t, b) == tasks' = [tasks EXCEPT ![t].chan = b]

Unchanged_loop == UNCHANGED <<parsing_active, parsing_task, ended>>

\* the target check, then the first session.get
SiteStart(t) ==
    /\ tasks[t].status = "gather"
    /\ tasks[t].site.pc = "start"
    /\ SetSite(t, IF ~Truthy(config.target_channel) THEN DoneSite
                  ELSE NextSite(tasks[t].site, config))
    /\ UNCHANGED <<config, disk, delivered, recorded_texts, flooded>>
    /\ logged' = Record(IF ~Truthy(config.target_channel)
                 THEN Log("parse_sites", "no_target") ELSE NoLog)
    /\ Unchanged_loop /\ Unchanged_handlers

\* session.get(site) returns the response or raises: status "ok" is 200,
\* "error" any other status or an exception of the request; after a 200 the
\* coroutine waits again, in resp.text()
SiteResponse(t, status) ==
    LET b == tasks[t].site IN
    /\ tasks[t].status = "gather"
    /\ b.pc = "fetch"
    /\ SetSite(t, IF status # "ok" THEN AfterSiteError(b, config)
                  ELSE [b EXCEPT !.pc = "read"])
    /\ UNCHANGED <<config, disk, delivered, recorded_texts, flooded>>
    /\ logged' = Record(IF status # "ok" THEN Log("site_fetch", "error") ELSE NoLog)
    /\ Unchanged_loop /\ Unchanged_handlers

\* resp.text() returns the page or raises (status "error"), then the code up
\* to the send_message of the snippet; an exception of get_message_hash is
\* caught as one of the request is
SiteFetched(t, status, text) ==
    LET b == tasks[t].site IN
    /\ tasks[t].status = "gather"
    /\ b.pc = "read"
    /\ SetSite(t, IF status # "ok" THEN AfterSiteError(b, config)
                  ELSE IF text = <<>> THEN NextSite(b, config)
                  ELSE IF SiteHash(text) = UnicodeEncodeError
                  THEN AfterSiteError(b, config)
                  ELSE IF ShouldPublish(SiteHash(text), text, config)
                  THEN [b EXCEPT !.pc = "send", !.text = text,
                                 !.seen = SiteHash(text) \in config.sent_hashes]
                  ELSE NextSite(b, config))
    /\ UNCHANGED <<config, disk, delivered, recorded_texts, flooded>>
    /\ logged' = Record(IF status # "ok" THEN Log("site_fetch", "error")
                 ELSE IF text = <<>> THEN Log("site_fetch", "empty")
                 ELSE IF SiteHash(text) = UnicodeEncodeError
                 THEN Log("site_fetch", "error")
                 ELSE NoLog)
    /\ Unchanged_loop /\ Unchanged_handlers

\* userbot.send_message returns or raises
SiteSent(t, outcome) ==
    LET b == tasks[t].site
        h == SiteHash(b.text) IN
    /\ tasks[t].status = "gather"
    /\ b.pc = "send"
    /\ config' = CASE outcome = "ok" -> save(RecordHash(config, h))
                   [] outcome = "flood" -> AfterFloodWait(config, h)
                   [] OTHER -> AfterPublishError(config, h)
    /\ disk' = IF outcome = "ok" THEN File(config') ELSE disk
    /\ delivered' = IF outcome = "ok" THEN delivered \cup {h} ELSE delivered
    /\ flooded' = IF outcome = "flood" THEN h
                  ELSE IF outcome = "ok" /\ flooded = h THEN None ELSE flooded
    /\ SetSite(t, IF outcome = "flood" THEN [b EXCEPT !.pc = "flood"]
                  ELSE NextSite(b, config'))
    /\ UNCHANGED recorded_texts
    /\ logged' = Record(CASE outcome = "ok" -> NoLog
                   [] outcome = "flood" -> Log("site_send", "FloodWaitError")
                   [] OTHER -> Log("site_send", "Exception"))
    /\ Unchanged_loop /\ Unchanged_handlers

\* asyncio.sleep(e.seconds) returns
SiteFloodWake(t) ==
    /\ tasks[t].status = "gather"
    /\ tasks[t].site.pc = "flood"
    /\ SetSite(t, NextSite(tasks[t].site, config))
    /\ UNCHANGED <<config, disk, delivered, recorded_texts, flooded>>
    /\ logged' = Record(NoLog)
    /\ Unchanged_loop /\ Unchanged_handlers

-----------------------------------------------------------------------------
(* parse_channels, main.py:217-290 *)

\* the exceptions the three except clauses around the async for tell apart
ScanErrors == {"ChannelPrivateError", "ChannelInvalidError", "Exception"}

\* the target check, then the first channel
ChanStart(t) ==
    /\ tasks[t].status = "gather"
    /\ tasks[t].chan.pc = "start"
    /\ SetChan(t, IF ~Truthy(config.target_channel) THEN DoneChan
                  ELSE NextChannel(tasks[t].chan, config))
    /\ UNCHANGED <<config, disk, delivered, recorded_texts, flooded>>
    /\ logged' = Record(IF ~Truthy(config.target_channel)
                 THEN Log("parse_channels", "no_target") ELSE NoLog)
    /\ Unchanged_loop /\ Unchanged_handlers

\* the body of the async for up to its first await, for message m
ExamineItem(b, m, c, active) ==
    IF ~active THEN DoneChan
    ELSE IF ~Truthy(m.text) /\ m.media = "None" THEN NextItem([b EXCEPT !.seen = FALSE])
    ELSE IF CaptionRaises(m) THEN AfterScanError(b, c)
    ELSE IF ChannelHash(m) = UnicodeEncodeError THEN AfterScanError(b, c)
    ELSE IF ShouldPublish(ChannelHash(m), CleanContent(m), c)
    THEN [b EXCEPT !.pc = "send", !.seen = ChannelHash(m) \in c.sent_hashes,
                   !.dest = c.target_channel]
    ELSE NextItem([b EXCEPT !.seen = ChannelHash(m) \in c.sent_hashes])

\* __anext__ of iter_messages returns a message, ends the iteration, or raises
\* (exc); an exception, of the iteration, of msg.caption or of
\* get_message_hash, leaves the async for and its except clause logs it
ChanItem(t, exc) ==
    LET b == tasks[t].chan
        feed == Take(Feed(b.channel), ScanLimit)
        raised == IF exc # "none" THEN exc
                  ELSE IF /\ b.k < Len(feed)
                          /\ parsing_active
                          /\ \/ Truthy(feed[b.k + 1].text)
                             \/ feed[b.k + 1].media # "None"
                          /\ \/ CaptionRaises(feed[b.k + 1])
                             \/ ChannelHash(feed[b.k + 1]) = UnicodeEncodeError
                  THEN "Exception"
                  ELSE "none" IN
    /\ tasks[t].status = "gather"
    /\ b.pc = "iter"
    /\ SetChan(t, IF exc # "none" THEN AfterScanError(b, config)
                  ELSE IF b.k >= Len(feed) THEN NextChannel(b, config)
                  ELSE ExamineItem([b EXCEPT !.k = b.k + 1], feed[b.k + 1],
                                   config, parsing_active))
    /\ UNCHANGED <<config, disk, delivered, recorded_texts, flooded>>
    /\ logged' = Record(IF raised # "none" THEN Log("scan", raised) ELSE NoLog)
    /\ Unchanged_loop /\ Unchanged_handlers

\* send_file, forward_messages or send_message returns or raises
ChanSent(t, outcome) ==
    LET b == tasks[t].chan
        m == CurrentMsg(b)
        h == ChannelHash(m) IN
    /\ tasks[t].status = "gather"
    /\ b.pc = "send"
    /\ config' = CASE outcome = "ok" -> save(RecordHash(config, h))
                   [] outcome = "flood" -> AfterFloodWait(config, h)
                   [] OTHER -> AfterPublishError(config, h)
    /\ disk' = IF outcome = "ok" THEN File(config') ELSE disk
    /\ delivered' = IF outcome = "ok" THEN delivered \cup {h} ELSE delivered
    /\ recorded_texts' = IF outcome = "ok" /\ m.media = "None"
                         THEN recorded_texts \cup {m.text} ELSE recorded_texts
    /\ flooded' = IF outcome = "flood" THEN h
                  ELSE IF outcome = "ok" /\ flooded = h THEN None ELSE flooded
    /\ SetChan(t, CASE outcome = "ok" -> NextItem(b)
                    [] outcome = "flood" -> [b EXCEPT !.pc = "flood"]
                    [] OTHER -> IF CleanContent(m) # <<>>
                                THEN [b EXCEPT !.pc = "fallback",
                                               !.dest = config.target_channel]
                                ELSE NextItem(b))
    /\ logged' = Record(CASE outcome = "ok" -> NoLog
                   [] outcome = "flood" -> Log("send", "FloodWaitError")
                   [] OTHER -> Log("send", "Exception"))
    /\ Unchanged_loop /\ Unchanged_handlers

\* the fallback send_message(clean_content[:4000]) returns or raises; except
\* Exception catches a FloodWaitError of the fallback too
ChanFallbackSent(t, outcome) ==
    LET b == tasks[t].chan
        h == ChannelHash(CurrentMsg(b)) IN
    /\ tasks[t].status = "gather"
    /\ b.pc = "fallback"
    /\ flooded' = IF outcome = "flood" THEN h ELSE flooded
    /\ SetChan(t, NextItem(b))
    /\ UNCHANGED <<config, disk, delivered, recorded_texts>>
    /\ logged' = Record(CASE outcome = "ok" -> NoLog
                   [] outcome = "flood" -> Log("fallback", "FloodWaitError")
                   [] OTHER -> Log("fallback", "Exception"))
    /\ Unchanged_loop /\ Unchanged_handlers

\* asyncio.sleep(e.seconds) returns
ChanFloodWake(t) ==
    /\ tasks[t].status = "gather"
    /\ tasks[t].chan.pc = "flood"
    /\ SetChan(t, NextItem(tasks[t].chan))
    /\ UNCHANGED <<config, disk, delivered, recorded_texts, flooded>>
    /\ logged' = Record(NoLog)
    /\ Unchanged_loop /\ Unchanged_handlers

-----------------------------------------------------------------------------
(* Operator handlers, main.py:397-641 *)

\* the text of the "back to the menu" keyboard button, main.py:513, in
\* Russian: three words of 9, 1 and 4 letters
MenuText ==
    <<1042, 1077, 1088, 1085, 1091, 1090, 1100, 1089, 1103, 32, 1074, 32,
      1084, 1077, 1085, 1102>>

KeywordsText == Str(<<"k", "e", "y", "w", "o", "r", "d", "s", ",", "b", "t", "c">>)

\* the text messages the operator sends, each with the values of
\* awaiting_target_channel and awaiting_source it is handled under: @b and @a
\* as the destination, @a (also as a t.me link) and a site as sources, the
\* keyword list (also with \x0b and a no-break space around a keyword) and
\* the "-" of the keywords prompt, and texts that are refused
OperatorInputs ==
    { <<ChB, TRUE, FALSE>>, <<ChA, TRUE, TRUE>>, <<Str(<<"x">>), TRUE, FALSE>>,
      <<ChA, FALSE, TRUE>>, <<Str(<<"t", ".", "m", "e", "/", "a">>), FALSE, TRUE>>,
      <<SiteS, FALSE, TRUE>>, <<Str(<<"x">>), FALSE, TRUE>>,
      <<KeywordsText, FALSE, FALSE>>, <<Str(<<"-">>), FALSE, FALSE>>,
      <<Str(<<"K", "e", "y", "w", "o", "r", "d", "s", ",">>) \o <<11>>
            \o Str(<<"x">>) \o <<160>>, FALSE, FALSE>>,
      <<MenuText, TRUE, TRUE>> }

\* the operator inputs that handle_text does not refuse
LoopInputs ==
    { <<ChB, TRUE, FALSE>>, <<ChA, TRUE, TRUE>>, <<ChA, FALSE, TRUE>>,
      <<SiteS, FALSE, TRUE>>, <<KeywordsText, FALSE, FALSE>> }

\* str.split(sep) for a one-character separator
RECURSIVE Split(_, _)
Split(s, sep) ==
    LET j == FindFrom(s, 1, {sep}) IN
    IF j = 0 THEN <<s>>
    ELSE <<SubSeq(s, 1, j - 1)>> \o Split(DropTo(s, j + 1), sep)

\* [kw.strip() for kw in parts if kw.strip()]
RECURSIVE StripAll(_)
StripAll(parts) ==
    IF parts = <<>> THEN <<>>
    ELSE IF Strip(Head(parts)) = <<>> THEN StripAll(Tail(parts))
    ELSE <<Strip(Head(parts))>> \o StripAll(Tail(parts))

\* '@' + source.split('/')[-1] for a t.me/ link
NormalizeSource(source) ==
    IF StartsWith(source, Str(<<"t", ".", "m", "e", "/">>))
    THEN LET parts == Split(source, Ord["/"]) IN Str(<<"@">>) \o parts[Len(parts)]
    ELSE source

IsSite(source) ==
    \/ StartsWith(source, Str(<<"h", "t", "t", "p", ":", "/", "/">>))
    \/ StartsWith(source, Str(<<"h", "t", "t", "p", "s", ":", "/", "/">>))

IsChannel(source) ==
    StartsWith(source, Str(<<"@">>)) \/ StartsWith(source, Str(<<"t", ".", "m", "e", "/">>))

\* any(word in message.text.lower() for word in [<Russian for
\* "key words">, "keywords"]), the first word by its code points
IsKeywordsText(text) ==
    \/ Contains(Lower(text),
                <<1082, 1083, 1102, 1095, 1077, 1074, 1099, 1077, 32,
                  1089, 1083, 1086, 1074, 1072>>)
    \/ Contains(Lower(text), Str(<<"k", "e", "y", "w", "o", "r", "d", "s">>))

AddPending(bag, kind, arg) == [bag EXCEPT ![<<kind, arg>>] = @ + 1]

DropPending(bag, p) == [bag EXCEPT ![p] = @ - 1]

Unchanged_tasks ==
    /\ logged' = Record(NoLog)
    /\ UNCHANGED <<parsing_active, parsing_task, tasks, reply, loaded_hashes, delivered,
                   recorded_texts, flooded, ended, call, result>>

\* list_sources_handler: config.clean_sources(), and no save
list_sources_handler ==
    /\ config' = clean_sources(config)
    /\ UNCHANGED <<disk, handlers>>
    /\ Unchanged_tasks

\* [kw.strip() for kw in message.text.split(',') if kw.strip()]
ParseKeywords(text) == StripAll(Split(text, Ord[","]))

\* handle_text up to its return or to the get_entity it is suspended at: the
\* new configuration, whether it was saved, and the await.  at and as are
\* awaiting_target_channel and awaiting_source as the handler reads them
HandleTextStep(text, c, at, as) ==
    LET stripped == Strip(text)
        source == NormalizeSource(stripped)
        stay == [cfg |-> c, saved |-> FALSE, kind |-> "return", arg |-> None] IN
    IF text = MenuText THEN stay
    ELSE IF at
    THEN IF ~StartsWith(stripped, Str(<<"@">>)) THEN stay
         ELSE [stay EXCEPT !.kind = "get_target", !.arg = stripped]
    ELSE IF as
    THEN IF IsSite(stripped)
         THEN IF InList(stripped, c.sites) THEN stay
              ELSE [cfg |-> save([c EXCEPT !.sites = Append(@, stripped)]),
                    saved |-> TRUE, kind |-> "return", arg |-> None]
         ELSE IF IsChannel(stripped)
         THEN IF source = c.target_channel \/ InList(source, c.channels) THEN stay
              ELSE [stay EXCEPT !.kind = "get_source", !.arg = source]
         ELSE stay
    ELSE IF IsKeywordsText(text)
    THEN [cfg |-> save([c EXCEPT !.keywords =
                            IF stripped = Str(<<"-">>) THEN <<>>
                            ELSE ParseKeywords(text)]),
          saved |-> TRUE, kind |-> "return", arg |-> None]
    ELSE stay

\* The two dialogue flags are inputs of the step: the operator sets either
\* with the set_target and add_source buttons and clears both with the menu
\* button, while the handlers suspended in get_entity stay suspended, so a
\* text can reach handle_text under every value of the flags.
handle_text(text, at, as, limit) ==
    LET r == HandleTextStep(text, config, at, as) IN
    /\ r.kind # "return" => Suspended < limit
    /\ config' = r.cfg
    /\ disk' = IF r.saved THEN File(r.cfg) ELSE disk
    /\ handlers' = IF r.kind = "return" THEN handlers
                   ELSE AddPending(handlers, r.kind, r.arg)
    /\ Unchanged_tasks

\* config.target_channel = channel
SetTarget(c, channel) == [c EXCEPT !.target_channel = channel]

\* config.sources['channels'].append(source)
AppendChannel(c, source) == [c EXCEPT !.channels = Append(@, source)]

\* a suspended handler runs on to its end; found tells whether the call it
\* awaits returned: userbot.get_entity an entity, and for the handler that
\* goes on to list_sources_handler the reply (send_message_with_menu and
\* callback.answer); the call raises otherwise and the handler ends there
handler_resume(p, found) ==
    /\ handlers[p] > 0
    /\ config' = CASE p[1] = "get_target" /\ found -> save(SetTarget(config, p[2]))
                   [] p[1] = "get_source" /\ found -> save(AppendChannel(config, p[2]))
                   [] p[1] = "list" /\ found -> clean_sources(config)
                   [] OTHER -> config
    /\ disk' = IF p[1] \in {"get_target", "get_source"} /\ found
               THEN File(config') ELSE disk
    /\ handlers' = DropPending(handlers, p)
    /\ Unchanged_tasks

\* the sources a remove_<md5> button may name
KnownSources == {ChA, SiteS}

\* the first source of a list whose md5 is source_hash, or None;
\* source.encode() raises on a source UTF-8 cannot encode
RECURSIVE FindByHash(_, _)
FindByHash(list, source_hash) ==
    IF list = <<>> THEN None
    ELSE IF get_message_hash(Head(list)) = UnicodeEncodeError
    THEN UnicodeEncodeError
    ELSE IF get_message_hash(Head(list)) = source_hash THEN Head(list)
    ELSE FindByHash(Tail(list), source_hash)

\* the two nested loops of confirm_remove_handler
RemoveSource(c, source_hash) ==
    IF FindByHash(c.channels, source_hash) = UnicodeEncodeError THEN c
    ELSE IF FindByHash(c.channels, source_hash) # None
    THEN [c EXCEPT !.channels = ListRemove(@, FindByHash(c.channels, source_hash))]
    ELSE IF FindByHash(c.sites, source_hash) \notin {None, UnicodeEncodeError}
    THEN [c EXCEPT !.sites = ListRemove(@, FindByHash(c.sites, source_hash))]
    ELSE c

\* confirm_remove_handler: remove and save, then list_sources_handler after
\* the reply; an exception of source.encode() ends the handler
confirm_remove_handler(source_hash, limit) ==
    LET found == /\ FindByHash(config.channels, source_hash) # UnicodeEncodeError
                 /\ \/ FindByHash(config.channels, source_hash) # None
                    \/ FindByHash(config.sites, source_hash)
                           \notin {None, UnicodeEncodeError} IN
    /\ found => Suspended < limit
    /\ config' = IF found THEN save(RemoveSource(config, source_hash)) ELSE config
    /\ disk' = IF found THEN File(config') ELSE disk
    /\ handlers' = IF found THEN AddPending(handlers, "list", None) ELSE handlers
    /\ Unchanged_tasks

-----------------------------------------------------------------------------
(* The event loop runs one coroutine up to its next await *)

Outcomes == {"ok", "flood", "error"}

Next ==
    \/ start_parsing_handler
    \/ stop_parsing_handler
    \/ list_sources_handler
    \/ \E in \in LoopInputs : handle_text(in[1], in[2], in[3], MaxHandlers)
    \/ \E p \in PendingKinds, found \in BOOLEAN : handler_resume(p, found)
    \/ \E s \in KnownSources : confirm_remove_handler(get_message_hash(s), MaxHandlers)
    \/ \E t \in Slots : LoopStart(t)
    \/ \E t \in Slots : LoopJoin(t)
    \/ \E t \in Slots : LoopWake(t)
    \/ \E t \in Slots : SiteStart(t)
    \/ \E t \in Slots, status \in {"ok", "error"} : SiteResponse(t, status)
    \/ \E t \in Slots, status \in {"ok", "error"}, text \in Pages :
          SiteFetched(t, status, text)
    \/ \E t \in Slots, outcome \in Outcomes : SiteSent(t, outcome)
    \/ \E t \in Slots : SiteFloodWake(t)
    \/ \E t \in Slots : ChanStart(t)
    \/ \E t \in Slots, exc \in {"none"} \cup ScanErrors : ChanItem(t, exc)
    \/ \E t \in Slots, outcome \in Outcomes : ChanSent(t, outcome)
    \/ \E t \in Slots, outcome \in Outcomes : ChanFallbackSent(t, outcome)
    \/ \E t \in Slots : ChanFloodWake(t)

Spec == Init /\ [][Next]_vars

\* the operator dialogue alone: the runs of the program in which Start is
\* never pressed, with more handlers suspended at once
NextOps ==
    \/ list_sources_handler
    \/ \E in \in OperatorInputs : handle_text(in[1], in[2], in[3], MaxRacing)
    \/ \E p \in PendingKinds, found \in BOOLEAN : handler_resume(p, found)
    \/ \E s \in KnownSources : confirm_remove_handler(get_message_hash(s), MaxRacing)

SpecOps == Init /\ [][NextOps]_vars

\* keyword lists the operator sends while the loop runs
KeywordsTextX == Str(<<"k", "e", "y", "w", "o", "r", "d", "s", ",", "x">>)

PassInputs == { <<KeywordsText, FALSE, FALSE>>, <<KeywordsTextX, FALSE, FALSE>> }

\* configurations the operator has built before Start: destination @b, the
\* channel @a and two sites, with and without keywords
PassConfigs ==
    { [channels |-> <<ChA>>, sites |-> <<SiteS, SiteT>>, keywords |-> kw,
       target_channel |-> ChB, sent_hashes |-> {}] :
         kw \in {<<>>, ParseKeywords(KeywordsText)} }

\* the state right after a Start from such a configuration, the log followed
InitPass ==
    /\ config \in PassConfigs
    /\ disk = File(config)
    /\ loaded_hashes = {}
    /\ parsing_active = TRUE
    /\ parsing_task = 1
    /\ tasks = [t \in Slots |-> IF t = 1 THEN NewTask ELSE FreeTask]
    /\ handlers = [p \in PendingKinds |-> 0]
    /\ reply = "ok"
    /\ delivered = {}
    /\ recorded_texts = {}
    /\ flooded = None
    /\ ended = NoEnd
    /\ logged = NoLog
    /\ call = NoCall
    /\ result = <<>>

\* the steps of the loop task and of its two scans
LoopStep ==
    \/ \E t \in Slots : LoopStart(t)
    \/ \E t \in Slots : LoopJoin(t)
    \/ \E t \in Slots : LoopWake(t)
    \/ \E t \in Slots : SiteStart(t)
    \/ \E t \in Slots, status \in {"ok", "error"} : SiteResponse(t, status)
    \/ \E t \in Slots, status \in {"ok", "error"}, text \in Pages :
          SiteFetched(t, status, text)
    \/ \E t \in Slots, outcome \in Outcomes : SiteSent(t, outcome)
    \/ \E t \in Slots : SiteFloodWake(t)
    \/ \E t \in Slots : ChanStart(t)
    \/ \E t \in Slots, exc \in {"none"} \cup ScanErrors : ChanItem(t, exc)
    \/ \E t \in Slots, outcome \in Outcomes : ChanSent(t, outcome)
    \/ \E t \in Slots, outcome \in Outcomes : ChanFallbackSent(t, outcome)
    \/ \E t \in Slots : ChanFloodWake(t)

\* a running loop that no Stop interrupts, the operator changing the keywords
NextPass ==
    \/ LoopStep
    \/ \E in \in PassInputs : handle_text(in[1], in[2], in[3], MaxHandlers)

SpecPass == InitPass /\ [][NextPass]_vars

\* the same runs when every network call and every sleep of the loop returns:
\* the event loop resumes a coroutine whose await has completed
SpecLive == InitPass /\ [][NextPass]_vars /\ WF_vars(LoopStep)

-----------------------------------------------------------------------------
(* Functions of the program applied on their own to a range of arguments *)

\* texts (the empty one and None among them) and keyword lists, the last two in Russian and Greek capitals (U+0401
\* U+0416, and omicron sigma alpha) and in Russian small letters and Greek
\* capitals (omicron sigma)
KeywordTexts ==
    { <<>>, None,
      Str(<<"B", "i", "t", "c", "o", "i", "n", " ", "u", "p">>),
      Str(<<"b", "t", "c">>),
      Str(<<"E", "T", "H", "!">>),
      <<1025, 1046>>,
      <<927, 931, 913>> }

KeywordLists ==
    { <<>>,
      << Str(<<"b", "i", "t", "c", "o", "i", "n">>) >>,
      << Str(<<"B", "T", "C">>), Str(<<"x">>) >>,
      << Str(<<"e", "t", "h">>) >>,
      << Str(<<"u", "p", "s">>) >>,
      << <<>> >>,
      << <<1105, 1078>> >>,
      << <<927, 931>> >> }

\* the calls of contains_keywords, and of the condition the two scans make of it
KeywordCalls ==
    { [fn |-> f, text |-> t, keywords |-> k] :
        f \in {"contains_keywords", "KeywordGate"}, t \in KeywordTexts,
        k \in KeywordLists }

Returned == result # <<>>

Returns(v) ==
    /\ ~Returned
    /\ result' = <<v>>
    /\ UNCHANGED <<config, disk, parsing_active, parsing_task, tasks, handlers, reply,
                   loaded_hashes, delivered, recorded_texts, flooded, ended, logged,
                   call>>

call_contains_keywords ==
    /\ call.fn = "contains_keywords"
    /\ Returns(contains_keywords(call.text, call.keywords))

call_KeywordGate ==
    /\ call.fn = "KeywordGate"
    /\ Returns(KeywordGate(call.text, call.keywords))

-----------------------------------------------------------------------------
(* clean_text, filters.py:3-21 *)

\* the characters \w matches (str.isalnum, and the underscore), as ranges
\* <<first, last>>
WordChars ==
    UNION { r[1]..r[2] : r \in {
        <<48, 57>>, <<65, 90>>, <<95, 95>>, <<97, 122>>, <<170, 170>>,
        <<178, 179>>, <<181, 181>>, <<185, 186>>, <<188, 190>>, <<192, 214>>,
        <<216, 246>>, <<248, 705>>, <<710, 721>>, <<736, 740>>, <<748, 748>>,
        <<750, 750>>, <<880, 884>>, <<886, 887>>, <<890, 893>>, <<895, 895>>,
        <<902, 902>>, <<904, 906>>, <<908, 908>>, <<910, 929>>, <<931, 1013>>,
        <<1015, 1153>>, <<1162, 1327>>, <<1329, 1366>>, <<1369, 1369>>,
        <<1376, 1416>>, <<1488, 1514>>, <<1519, 1522>>, <<1568, 1610>>,
        <<1632, 1641>>, <<1646, 1647>>, <<1649, 1747>>, <<1749, 1749>>,
        <<1765, 1766>>, <<1774, 1788>>, <<1791, 1791>>, <<1808, 1808>>,
        <<1810, 1839>>, <<1869, 1957>>, <<1969, 1969>>, <<1984, 2026>>,
        <<2036, 2037>>, <<2042, 2042>>, <<2048, 2069>>, <<2074, 2074>>,
        <<2084, 2084>>, <<2088, 2088>>, <<2112, 2136>>, <<2144, 2154>>,
        <<2160, 2183>>, <<2185, 2190>>, <<2208, 2249>>, <<2308, 2361>>,
        <<2365, 2365>>, <<2384, 2384>>, <<2392, 2401>>, <<2406, 2415>>,
        <<2417, 2432>>, <<2437, 2444>>, <<2447, 2448>>, <<2451, 2472>>,
        <<2474, 2480>>, <<2482, 2482>>, <<2486, 2489>>, <<2493, 2493>>,
        <<2510, 2510>>, <<2524, 2525>>, <<2527, 2529>>, <<2534, 2545>>,
        <<2548, 2553>>, <<2556, 2556>>, <<2565, 2570>>, <<2575, 2576>>,
        <<2579, 2600>>, <<2602, 2608>>, <<2610, 2611>>, <<2613, 2614>>,
        <<2616, 2617>>, <<2649, 2652>>, <<2654, 2654>>, <<2662, 2671>>,
        <<2674, 2676>>, <<2693, 2701>>, <<2703, 2705>>, <<2707, 2728>>,
        <<2730, 2736>>, <<2738, 2739>>, <<2741, 2745>>, <<2749, 2749>>,
        <<2768, 2768>>, <<2784, 2785>>, <<2790, 2799>>, <<2809, 2809>>,
        <<2821, 2828>>, <<2831, 2832>>, <<2835, 2856>>, <<2858, 2864>>,
        <<2866, 2867>>, <<2869, 2873>>, <<2877, 2877>>, <<2908, 2909>>,
        <<2911, 2913>>, <<2918, 2927>>, <<2929, 2935>>, <<2947, 2947>>,
        <<2949, 2954>>, <<2958, 2960>>, <<2962, 2965>>, <<2969, 2970>>,
        <<2972, 2972>>, <<2974, 2975>>, <<2979, 2980>>, <<2984, 2986>>,
        <<2990, 3001>>, <<3024, 3024>>, <<3046, 3058>>, <<3077, 3084>>,
        <<3086, 3088>>, <<3090, 3112>>, <<3114, 3129>>, <<3133, 3133>>,
        <<3160, 3162>>, <<3165, 3165>>, <<3168, 3169>>, <<3174, 3183>>,
        <<3192, 3198>>, <<3200, 3200>>, <<3205, 3212>>, <<3214, 3216>>,
        <<3218, 3240>>, <<3242, 3251>>, <<3253, 3257>>, <<3261, 3261>>,
        <<3293, 3294>>, <<3296, 3297>>, <<3302, 3311>>, <<3313, 3314>>,
        <<3332, 3340>>, <<3342, 3344>>, <<3346, 3386>>, <<3389, 3389>>,
        <<3406, 3406>>, <<3412, 3414>>, <<3416, 3425>>, <<3430, 3448>>,
        <<3450, 3455>>, <<3461, 3478>>, <<3482, 3505>>, <<3507, 3515>>,
        <<3517, 3517>>, <<3520, 3526>>, <<3558, 3567>>, <<3585, 3632>>,
        <<3634, 3635>>, <<3648, 3654>>, <<3664, 3673>>, <<3713, 3714>>,
        <<3716, 3716>>, <<3718, 3722>>, <<3724, 3747>>, <<3749, 3749>>,
        <<3751, 3760>>, <<3762, 3763>>, <<3773, 3773>>, <<3776, 3780>>,
        <<3782, 3782>>, <<3792, 3801>>, <<3804, 3807>>, <<3840, 3840>>,
        <<3872, 3891>>, <<3904, 3911>>, <<3913, 3948>>, <<3976, 3980>>,
        <<4096, 4138>>, <<4159, 4169>>, <<4176, 4181>>, <<4186, 4189>>,
        <<4193, 4193>>, <<4197, 4198>>, <<4206, 4208>>, <<4213, 4225>>,
        <<4238, 4238>>, <<4240, 4249>>, <<4256, 4293>>, <<4295, 4295>>,
        <<4301, 4301>>, <<4304, 4346>>, <<4348, 4680>>, <<4682, 4685>>,
        <<4688, 4694>>, <<4696, 4696>>, <<4698, 4701>>, <<4704, 4744>>,
        <<4746, 4749>>, <<4752, 4784>>, <<4786, 4789>>, <<4792, 4798>>,
        <<4800, 4800>>, <<4802, 4805>>, <<4808, 4822>>, <<4824, 4880>>,
        <<4882, 4885>>, <<4888, 4954>>, <<4969, 4988>>, <<4992, 5007>>,
        <<5024, 5109>>, <<5112, 5117>>, <<5121, 5740>>, <<5743, 5759>>,
        <<5761, 5786>>, <<5792, 5866>>, <<5870, 5880>>, <<5888, 5905>>,
        <<5919, 5937>>, <<5952, 5969>>, <<5984, 5996>>, <<5998, 6000>>,
        <<6016, 6067>>, <<6103, 6103>>, <<6108, 6108>>, <<6112, 6121>>,
        <<6128, 6137>>, <<6160, 6169>>, <<6176, 6264>>, <<6272, 6276>>,
        <<6279, 6312>>, <<6314, 6314>>, <<6320, 6389>>, <<6400, 6430>>,
        <<6470, 6509>>, <<6512, 6516>>, <<6528, 6571>>, <<6576, 6601>>,
        <<6608, 6618>>, <<6656, 6678>>, <<6688, 6740>>, <<6784, 6793>>,
        <<6800, 6809>>, <<6823, 6823>>, <<6917, 6963>>, <<6981, 6988>>,
        <<6992, 7001>>, <<7043, 7072>>, <<7086, 7141>>, <<7168, 7203>>,
        <<7232, 7241>>, <<7245, 7293>>, <<7296, 7304>>, <<7312, 7354>>,
        <<7357, 7359>>, <<7401, 7404>>, <<7406, 7411>>, <<7413, 7414>>,
        <<7418, 7418>>, <<7424, 7615>>, <<7680, 7957>>, <<7960, 7965>>,
        <<7968, 8005>>, <<8008, 8013>>, <<8016, 8023>>, <<8025, 8025>>,
        <<8027, 8027>>, <<8029, 8029>>, <<8031, 8061>>, <<8064, 8116>>,
        <<8118, 8124>>, <<8126, 8126>>, <<8130, 8132>>, <<8134, 8140>>,
        <<8144, 8147>>, <<8150, 8155>>, <<8160, 8172>>, <<8178, 8180>>,
        <<8182, 8188>>, <<8304, 8305>>, <<8308, 8313>>, <<8319, 8329>>,
        <<8336, 8348>>, <<8450, 8450>>, <<8455, 8455>>, <<8458, 8467>>,
        <<8469, 8469>>, <<8473, 8477>>, <<8484, 8484>>, <<8486, 8486>>,
        <<8488, 8488>>, <<8490, 8493>>, <<8495, 8505>>, <<8508, 8511>>,
        <<8517, 8521>>, <<8526, 8526>>, <<8528, 8585>>, <<9312, 9371>>,
        <<9450, 9471>>, <<10102, 10131>>, <<11264, 11492>>, <<11499, 11502>>,
        <<11506, 11507>>, <<11517, 11517>>, <<11520, 11557>>,
        <<11559, 11559>>, <<11565, 11565>>, <<11568, 11623>>,
        <<11631, 11631>>, <<11648, 11670>>, <<11680, 11686>>,
        <<11688, 11694>>, <<11696, 11702>>, <<11704, 11710>>,
        <<11712, 11718>>, <<11720, 11726>>, <<11728, 11734>>,
        <<11736, 11742>>, <<11823, 11823>>, <<12293, 12295>>,
        <<12321, 12329>>, <<12337, 12341>>, <<12344, 12348>>,
        <<12353, 12438>>, <<12445, 12447>>, <<12449, 12538>>,
        <<12540, 12543>>, <<12549, 12591>>, <<12593, 12686>>,
        <<12690, 12693>>, <<12704, 12735>>, <<12784, 12799>>,
        <<12832, 12841>>, <<12872, 12879>>, <<12881, 12895>>,
        <<12928, 12937>>, <<12977, 12991>>, <<13312, 19903>>,
        <<19968, 42124>>, <<42192, 42237>>, <<42240, 42508>>,
        <<42512, 42539>>, <<42560, 42606>>, <<42623, 42653>>,
        <<42656, 42735>>, <<42775, 42783>>, <<42786, 42888>>,
        <<42891, 42954>>, <<42960, 42961>>, <<42963, 42963>>,
        <<42965, 42969>>, <<42994, 43009>>, <<43011, 43013>>,
        <<43015, 43018>>, <<43020, 43042>>, <<43056, 43061>>,
        <<43072, 43123>>, <<43138, 43187>>, <<43216, 43225>>,
        <<43250, 43255>>, <<43259, 43259>>, <<43261, 43262>>,
        <<43264, 43301>>, <<43312, 43334>>, <<43360, 43388>>,
        <<43396, 43442>>, <<43471, 43481>>, <<43488, 43492>>,
        <<43494, 43518>>, <<43520, 43560>>, <<43584, 43586>>,
        <<43588, 43595>>, <<43600, 43609>>, <<43616, 43638>>,
        <<43642, 43642>>, <<43646, 43695>>, <<43697, 43697>>,
        <<43701, 43702>>, <<43705, 43709>>, <<43712, 43712>>,
        <<43714, 43714>>, <<43739, 43741>>, <<43744, 43754>>,
        <<43762, 43764>>, <<43777, 43782>>, <<43785, 43790>>,
        <<43793, 43798>>, <<43808, 43814>>, <<43816, 43822>>,
        <<43824, 43866>>, <<43868, 43881>>, <<43888, 44002>>,
        <<44016, 44025>>, <<44032, 55203>>, <<55216, 55238>>,
        <<55243, 55291>>, <<63744, 64109>>, <<64112, 64217>>,
        <<64256, 64262>>, <<64275, 64279>>, <<64285, 64285>>,
        <<64287, 64296>>, <<64298, 64310>>, <<64312, 64316>>,
        <<64318, 64318>>, <<64320, 64321>>, <<64323, 64324>>,
        <<64326, 64433>>, <<64467, 64829>>, <<64848, 64911>>,
        <<64914, 64967>>, <<65008, 65019>>, <<65136, 65140>>,
        <<65142, 65276>>, <<65296, 65305>>, <<65313, 65338>>,
        <<65345, 65370>>, <<65382, 65470>>, <<65474, 65479>>,
        <<65482, 65487>>, <<65490, 65495>>, <<65498, 65500>>,
        <<65536, 65547>>, <<65549, 65574>>, <<65576, 65594>>,
        <<65596, 65597>>, <<65599, 65613>>, <<65616, 65629>>,
        <<65664, 65786>>, <<65799, 65843>>, <<65856, 65912>>,
        <<65930, 65931>>, <<66176, 66204>>, <<66208, 66256>>,
        <<66273, 66299>>, <<66304, 66339>>, <<66349, 66378>>,
        <<66384, 66421>>, <<66432, 66461>>, <<66464, 66499>>,
        <<66504, 66511>>, <<66513, 66517>>, <<66560, 66717>>,
        <<66720, 66729>>, <<66736, 66771>>, <<66776, 66811>>,
        <<66816, 66855>>, <<66864, 66915>>, <<66928, 66938>>,
        <<66940, 66954>>, <<66956, 66962>>, <<66964, 66965>>,
        <<66967, 66977>>, <<66979, 66993>>, <<66995, 67001>>,
        <<67003, 67004>>, <<67072, 67382>>, <<67392, 67413>>,
        <<67424, 67431>>, <<67456, 67461>>, <<67463, 67504>>,
        <<67506, 67514>>, <<67584, 67589>>, <<67592, 67592>>,
        <<67594, 67637>>, <<67639, 67640>>, <<67644, 67644>>,
        <<67647, 67669>>, <<67672, 67702>>, <<67705, 67742>>,
        <<67751, 67759>>, <<67808, 67826>>, <<67828, 67829>>,
        <<67835, 67867>>, <<67872, 67897>>, <<67968, 68023>>,
        <<68028, 68047>>, <<68050, 68096>>, <<68112, 68115>>,
        <<68117, 68119>>, <<68121, 68149>>, <<68160, 68168>>,
        <<68192, 68222>>, <<68224, 68255>>, <<68288, 68295>>,
        <<68297, 68324>>, <<68331, 68335>>, <<68352, 68405>>,
        <<68416, 68437>>, <<68440, 68466>>, <<68472, 68497>>,
        <<68521, 68527>>, <<68608, 68680>>, <<68736, 68786>>,
        <<68800, 68850>>, <<68858, 68899>>, <<68912, 68921>>,
        <<69216, 69246>>, <<69248, 69289>>, <<69296, 69297>>,
        <<69376, 69415>>, <<69424, 69445>>, <<69457, 69460>>,
        <<69488, 69505>>, <<69552, 69579>>, <<69600, 69622>>,
        <<69635, 69687>>, <<69714, 69743>>, <<69745, 69746>>,
        <<69749, 69749>>, <<69763, 69807>>, <<69840, 69864>>,
        <<69872, 69881>>, <<69891, 69926>>, <<69942, 69951>>,
        <<69956, 69956>>, <<69959, 69959>>, <<69968, 70002>>,
        <<70006, 70006>>, <<70019, 70066>>, <<70081, 70084>>,
        <<70096, 70106>>, <<70108, 70108>>, <<70113, 70132>>,
        <<70144, 70161>>, <<70163, 70187>>, <<70272, 70278>>,
        <<70280, 70280>>, <<70282, 70285>>, <<70287, 70301>>,
        <<70303, 70312>>, <<70320, 70366>>, <<70384, 70393>>,
        <<70405, 70412>>, <<70415, 70416>>, <<70419, 70440>>,
        <<70442, 70448>>, <<70450, 70451>>, <<70453, 70457>>,
        <<70461, 70461>>, <<70480, 70480>>, <<70493, 70497>>,
        <<70656, 70708>>, <<70727, 70730>>, <<70736, 70745>>,
        <<70751, 70753>>, <<70784, 70831>>, <<70852, 70853>>,
        <<70855, 70855>>, <<70864, 70873>>, <<71040, 71086>>,
        <<71128, 71131>>, <<71168, 71215>>, <<71236, 71236>>,
        <<71248, 71257>>, <<71296, 71338>>, <<71352, 71352>>,
        <<71360, 71369>>, <<71424, 71450>>, <<71472, 71483>>,
        <<71488, 71494>>, <<71680, 71723>>, <<71840, 71922>>,
        <<71935, 71942>>, <<71945, 71945>>, <<71948, 71955>>,
        <<71957, 71958>>, <<71960, 71983>>, <<71999, 71999>>,
        <<72001, 72001>>, <<72016, 72025>>, <<72096, 72103>>,
        <<72106, 72144>>, <<72161, 72161>>, <<72163, 72163>>,
        <<72192, 72192>>, <<72203, 72242>>, <<72250, 72250>>,
        <<72272, 72272>>, <<72284, 72329>>, <<72349, 72349>>,
        <<72368, 72440>>, <<72704, 72712>>, <<72714, 72750>>,
        <<72768, 72768>>, <<72784, 72812>>, <<72818, 72847>>,
        <<72960, 72966>>, <<72968, 72969>>, <<72971, 73008>>,
        <<73030, 73030>>, <<73040, 73049>>, <<73056, 73061>>,
        <<73063, 73064>>, <<73066, 73097>>, <<73112, 73112>>,
        <<73120, 73129>>, <<73440, 73458>>, <<73648, 73648>>,
        <<73664, 73684>>, <<73728, 74649>>, <<74752, 74862>>,
        <<74880, 75075>>, <<77712, 77808>>, <<77824, 78894>>,
        <<82944, 83526>>, <<92160, 92728>>, <<92736, 92766>>,
        <<92768, 92777>>, <<92784, 92862>>, <<92864, 92873>>,
        <<92880, 92909>>, <<92928, 92975>>, <<92992, 92995>>,
        <<93008, 93017>>, <<93019, 93025>>, <<93027, 93047>>,
        <<93053, 93071>>, <<93760, 93846>>, <<93952, 94026>>,
        <<94032, 94032>>, <<94099, 94111>>, <<94176, 94177>>,
        <<94179, 94179>>, <<94208, 100343>>, <<100352, 101589>>,
        <<101632, 101640>>, <<110576, 110579>>, <<110581, 110587>>,
        <<110589, 110590>>, <<110592, 110882>>, <<110928, 110930>>,
        <<110948, 110951>>, <<110960, 111355>>, <<113664, 113770>>,
        <<113776, 113788>>, <<113792, 113800>>, <<113808, 113817>>,
        <<119520, 119539>>, <<119648, 119672>>, <<119808, 119892>>,
        <<119894, 119964>>, <<119966, 119967>>, <<119970, 119970>>,
        <<119973, 119974>>, <<119977, 119980>>, <<119982, 119993>>,
        <<119995, 119995>>, <<119997, 120003>>, <<120005, 120069>>,
        <<120071, 120074>>, <<120077, 120084>>, <<120086, 120092>>,
        <<120094, 120121>>, <<120123, 120126>>, <<120128, 120132>>,
        <<120134, 120134>>, <<120138, 120144>>, <<120146, 120485>>,
        <<120488, 120512>>, <<120514, 120538>>, <<120540, 120570>>,
        <<120572, 120596>>, <<120598, 120628>>, <<120630, 120654>>,
        <<120656, 120686>>, <<120688, 120712>>, <<120714, 120744>>,
        <<120746, 120770>>, <<120772, 120779>>, <<120782, 120831>>,
        <<122624, 122654>>, <<123136, 123180>>, <<123191, 123197>>,
        <<123200, 123209>>, <<123214, 123214>>, <<123536, 123565>>,
        <<123584, 123627>>, <<123632, 123641>>, <<124896, 124902>>,
        <<124904, 124907>>, <<124909, 124910>>, <<124912, 124926>>,
        <<124928, 125124>>, <<125127, 125135>>, <<125184, 125251>>,
        <<125259, 125259>>, <<125264, 125273>>, <<126065, 126123>>,
        <<126125, 126127>>, <<126129, 126132>>, <<126209, 126253>>,
        <<126255, 126269>>, <<126464, 126467>>, <<126469, 126495>>,
        <<126497, 126498>>, <<126500, 126500>>, <<126503, 126503>>,
        <<126505, 126514>>, <<126516, 126519>>, <<126521, 126521>>,
        <<126523, 126523>>, <<126530, 126530>>, <<126535, 126535>>,
        <<126537, 126537>>, <<126539, 126539>>, <<126541, 126543>>,
        <<126545, 126546>>, <<126548, 126548>>, <<126551, 126551>>,
        <<126553, 126553>>, <<126555, 126555>>, <<126557, 126557>>,
        <<126559, 126559>>, <<126561, 126562>>, <<126564, 126564>>,
        <<126567, 126570>>, <<126572, 126578>>, <<126580, 126583>>,
        <<126585, 126588>>, <<126590, 126590>>, <<126592, 126601>>,
        <<126603, 126619>>, <<126625, 126627>>, <<126629, 126633>>,
        <<126635, 126651>>, <<127232, 127244>>, <<130032, 130041>>,
        <<131072, 173791>>, <<173824, 177976>>, <<177984, 178205>>,
        <<178208, 183969>>, <<183984, 191456>>, <<194560, 195101>>,
        <<196608, 201546>> } }

\* the letter that stands for the lower-case letter l and for every letter
\* the regex module holds equal to it (dotless i with i, long s with s, ...):
\* re.IGNORECASE takes c and d for the same when the lower-case letters of
\* both have the same one
CaseClass(l) ==
    CASE
             l = 305 -> 105
          [] l = 383 -> 115
          [] l = 953 -> 837
          [] l = 956 -> 181
          [] l = 963 -> 962
          [] l = 976 -> 946
          [] l = 977 -> 952
          [] l = 981 -> 966
          [] l = 982 -> 960
          [] l = 1008 -> 954
          [] l = 1009 -> 961
          [] l = 1013 -> 949
          [] l = 7296 -> 1074
          [] l = 7297 -> 1076
          [] l = 7298 -> 1086
          [] l = 7299 -> 1089
          [] l = 7300 -> 1090
          [] l = 7301 -> 1090
          [] l = 7302 -> 1098
          [] l = 7303 -> 1123
          [] l = 7835 -> 7777
          [] l = 8126 -> 837
          [] l = 8147 -> 912
          [] l = 8163 -> 944
          [] l = 42571 -> 7304
          [] l = 64262 -> 64261
          [] OTHER -> l

\* the last position of the run of non-space characters that starts at i
NonSpaceRunEnd(s, i) ==
    LET w == FindFrom(s, i, Whitespace) IN IF w = 0 THEN Len(s) ELSE w - 1

\* r'http\S+|t\.me/\S+' matched at i
LinkAt(s, i) ==
    IF MatchAt(s, i, Str(<<"h", "t", "t", "p">>)) /\ i + 4 <= Len(s)
       /\ s[i + 4] \notin Whitespace
    THEN [end |-> NonSpaceRunEnd(s, i + 4), rep |-> <<>>]
    ELSE IF MatchAt(s, i, Str(<<"t", ".", "m", "e", "/">>)) /\ i + 5 <= Len(s)
            /\ s[i + 5] \notin Whitespace
    THEN [end |-> NonSpaceRunEnd(s, i + 5), rep |-> <<>>]
    ELSE NoMatch

\* r'@\w+' matched at i
MentionAt(s, i) ==
    IF s[i] = Ord["@"] /\ i + 1 <= Len(s) /\ s[i + 1] \in WordChars
    THEN [end |-> SkipWhile(s, i + 1, WordChars) - 1, rep |-> <<>>]
    ELSE NoMatch

\* re.escape(phrase) with re.IGNORECASE matched at i: character by character
PhraseAt(s, i, phrase) ==
    IF /\ phrase # <<>>
       /\ i + Len(phrase) - 1 <= Len(s)
       /\ \A k \in 1..Len(phrase) :
             CaseClass(LowerChar(s[i + k - 1])) = CaseClass(LowerChar(phrase[k]))
    THEN [end |-> i + Len(phrase) - 1, rep |-> <<>>]
    ELSE NoMatch

\* r'\s+' matched at i, replaced by one space
SpacesAt(s, i) ==
    IF s[i] \in Whitespace
    THEN [end |-> SkipWhile(s, i, Whitespace) - 1, rep |-> Str(<<" ">>)]
    ELSE NoMatch

\* re.sub of one of the patterns of clean_text, scanning from position i
RECURSIVE CleanFrom(_, _, _, _)
CleanFrom(kind, phrase, s, i) ==
    IF i > Len(s) THEN <<>>
    ELSE LET m == CASE kind = "link" -> LinkAt(s, i)
                    [] kind = "mention" -> MentionAt(s, i)
                    [] kind = "phrase" -> PhraseAt(s, i, phrase)
                    [] OTHER -> SpacesAt(s, i) IN
         IF m.end = 0 THEN <<s[i]>> \o CleanFrom(kind, phrase, s, i + 1)
         ELSE m.rep \o CleanFrom(kind, phrase, s, m.end + 1)

\* for phrase in blacklist: text = re.sub(re.escape(phrase), '', text, ...)
RECURSIVE RemovePhrases(_, _)
RemovePhrases(text, blacklist) ==
    IF blacklist = <<>> THEN text
    ELSE RemovePhrases(CleanFrom("phrase", Head(blacklist), text, 1), Tail(blacklist))

\* clean_text(text, blacklist, signature); text and signature are a str or
\* None
clean_text(text, blacklist, signature) ==
    IF ~Truthy(text) THEN <<>>
    ELSE LET links == CleanFrom("link", <<>>, text, 1)
             mentions == CleanFrom("mention", <<>>, links, 1)
             phrases == RemovePhrases(mentions, blacklist)
             cleaned == Strip(CleanFrom("spaces", <<>>, phrases, 1)) IN
         IF Truthy(signature) THEN cleaned \o Str(<<"\n", "\n">>) \o signature
         ELSE cleaned

CleanTexts ==
    { <<>>, None,
      Str(<<"h", "t", "x", "t", "p", ":", "/", "/", "a">>),
      Str(<<"s", "p", "s", "p", "a", "m", "a", "m">>),
      Str(<<"b", "u", "y", " ", "S", "p", "a", "m", " ", "h", "t", "t", "p", ":", "/", "/", "x", " ", "n", "o", "w", " ", "@", "b", "o", "b">>),
      Str(<<"a", " ", " ", "b">>),
      Str(<<"c", "a", "b", "d">>),
      Str(<<"a", "\r", "\n", "b", " ", "@">>) \o <<233>> \o Str(<<"t">>)
          \o <<233, 12, 160>>,
      <<11, 1025>> \o Str(<<"x", "X">>) \o <<383, 8195>> \o Str(<<"@">>) \o <<1105>>,
      Str(<<"s", "e", "e", " ", "t", ".", "m", "e", "/", "c", " ", "@", "a", "l", "_", "1", " ", "o", "k">>) }

Blacklists ==
    { <<>>,
      << Str(<<"x">>) >>,
      << Str(<<"s", "p", "a", "m">>) >>,
      << Str(<<"a", " ", "b">>) >>,
      << Str(<<"c", "d">>), Str(<<"a", "b">>) >>,
      << Str(<<"a", "b">>), Str(<<"c", "d">>) >> }

CleanCalls ==
    { [fn |-> "clean_text", text |-> t, blacklist |-> b, signature |-> g] :
        t \in CleanTexts, b \in Blacklists, g \in {None, Str(<<"s", "i", "g">>)} }

call_clean_text ==
    /\ call.fn = "clean_text"
    /\ Returns(clean_text(call.text, call.blacklist, call.signature))

-----------------------------------------------------------------------------
(* Config.__init__ and Config.load on the raw content of config.json,
   main.py:34-56 *)

\* a JSON value as json.load returns it: its Python type and its content; an
\* object is a sequence of <<key, value>> pairs, a number is a nonzero one
JNull == [t |-> "null", v |-> <<>>]

JNum == [t |-> "num", v |-> <<>>]

JStr(s) == [t |-> "str", v |-> s]

JList(l) == [t |-> "list", v |-> l]

JDict(pairs) == [t |-> "dict", v |-> pairs]

\* the keys of config.json, as strings of characters
Key(name) ==
    CASE name = "sources" -> Str(<<"s", "o", "u", "r", "c", "e", "s">>)
      [] name = "channels" -> Str(<<"c", "h", "a", "n", "n", "e", "l", "s">>)
      [] name = "sites" -> Str(<<"s", "i", "t", "e", "s">>)
      [] name = "keywords" -> Str(<<"k", "e", "y", "w", "o", "r", "d", "s">>)
      [] name = "target_channel" ->
            Str(<<"t", "a", "r", "g", "e", "t", "_", "c", "h", "a", "n", "n", "e", "l">>)
      [] name = "sent_hashes" -> Str(<<"s", "e", "n", "t", "_", "h", "a", "s", "h", "e", "s">>)

\* key in dict
HasKey(pairs, key) == \E i \in 1..Len(pairs) : pairs[i][1] = key

\* dict.get(key, default)
Get(pairs, key, default) ==
    IF HasKey(pairs, key)
    THEN pairs[CHOOSE i \in 1..Len(pairs) : pairs[i][1] = key][2]
    ELSE default

\* the truth value Python gives a loaded value
TruthyJ(j) == j.t = "num" \/ (j.t # "null" /\ j.v # <<>>)

\* the attributes __init__ assigns before it calls load
DefaultAttrs ==
    [sources |-> JDict(<< <<Key("channels"), JList(<<>>)>>,
                          <<Key("sites"), JList(<<>>)>> >>),
     keywords |-> JList(<<>>), target_channel |-> JNull,
     sent_hashes |-> [t |-> "set", v |-> <<>>]]

Completed(attrs) == [raised |-> "none", attrs |-> attrs]

Raised(exc, attrs) == [raised |-> exc, attrs |-> attrs]

\* set(x) of a list, of a str (its characters) or of a dict (its keys), the
\* members in a sequence
SetOf(j) ==
    [t |-> "set",
     v |-> CASE j.t = "str" -> [i \in 1..Len(j.v) |-> <<j.v[i]>>]
             [] j.t = "dict" -> [i \in 1..Len(j.v) |-> j.v[i][1]]
             [] OTHER -> j.v]

\* clean_sources on the attributes as loaded, whatever their types
clean_sources_loaded(a) ==
    IF ~TruthyJ(a.target_channel) THEN Completed(a)
    ELSE IF a.sources.t # "dict" THEN Raised("TypeError", a)
    ELSE IF ~HasKey(a.sources.v, Key("channels")) THEN Raised("KeyError", a)
    ELSE LET channels == Get(a.sources.v, Key("channels"), JNull)
             target == a.target_channel
         IN  CASE channels.t = "list" ->
                    IF target.t = "str" /\ InList(target.v, channels.v)
                    THEN Completed([a EXCEPT !.sources = JDict(
                            [i \in 1..Len(a.sources.v) |->
                                IF a.sources.v[i][1] = Key("channels")
                                THEN <<Key("channels"),
                                       JList(ListRemove(channels.v, target.v))>>
                                ELSE a.sources.v[i]])])
                    ELSE Completed(a)
               [] channels.t = "str" ->
                    IF target.t # "str" THEN Raised("TypeError", a)
                    ELSE IF Contains(channels.v, target.v)
                    THEN Raised("AttributeError", a)
                    ELSE Completed(a)
               [] channels.t = "dict" ->
                    IF target.t \in {"list", "dict"} THEN Raised("TypeError", a)
                    ELSE IF target.t = "str" /\ HasKey(channels.v, target.v)
                    THEN Raised("AttributeError", a)
                    ELSE Completed(a)
               [] OTHER -> Raised("TypeError", a)

\* the body of load's try block, main.py:49-54; only FileNotFoundError and
\* JSONDecodeError are caught, so every other exception leaves __init__
load_data(data) ==
    IF data.t # "dict" THEN Raised("AttributeError", DefaultAttrs)
    ELSE LET sources == Get(data.v, Key("sources"), DefaultAttrs.sources)
             keywords == Get(data.v, Key("keywords"), JList(<<>>))
             target == Get(data.v, Key("target_channel"), JNull)
             hashes == Get(data.v, Key("sent_hashes"), JList(<<>>))
             assigned == [sources |-> sources, keywords |-> keywords,
                          target_channel |-> target,
                          sent_hashes |-> DefaultAttrs.sent_hashes]
         IN  IF hashes.t \in {"num", "null"} THEN Raised("TypeError", assigned)
             ELSE clean_sources_loaded(
                      [assigned EXCEPT !.sent_hashes = SetOf(hashes)])

\* Config(): a missing file raises FileNotFoundError in open and text the
\* parser rejects (such as x, or nothing) raises JSONDecodeError in json.load,
\* and both are caught; bytes that are no text (such as \xff) raise
\* UnicodeDecodeError in f.read() and brackets nested deeper than the
\* interpreter's recursion limit raise RecursionError in json.load, and
\* neither is caught
Config_init(doc) ==
    CASE doc.kind \in {"missing", "not_json"} -> Completed(DefaultAttrs)
      [] doc.kind = "not_text" -> Raised("UnicodeDecodeError", DefaultAttrs)
      [] doc.kind = "nested" -> Raised("RecursionError", DefaultAttrs)
      [] OTHER -> load_data(doc.value)

\* what config.json may hold at startup: nothing, text that is not JSON,
\* bytes that are no text, brackets nested too deep, JSON that is no object, objects with missing or wrongly typed fields, and last
\* a configuration as save writes it, the only well-formed one
Documents ==
    LET Json(value) == [kind |-> "json", value |-> value]
        Sources(channels) == <<Key("sources"),
                               JDict(<< <<Key("channels"), channels>>,
                                        <<Key("sites"), JList(<<>>)>> >>)>>
        Target(t) == <<Key("target_channel"), t>> IN
    << [kind |-> "missing", value |-> JNull],
       [kind |-> "not_json", value |-> JNull],
       [kind |-> "not_text", value |-> JNull],
       [kind |-> "nested", value |-> JNull],
       Json(JList(<<>>)),
       Json(JNum),
       Json(JNull),
       Json(JStr(Str(<<"x">>))),
       Json(JDict(<<>>)),
       Json(JDict(<< <<Key("sent_hashes"), JNum>> >>)),
       Json(JDict(<< <<Key("sent_hashes"), JNull>> >>)),
       Json(JDict(<< <<Key("sent_hashes"), JStr(Str(<<"a", "b">>))>> >>)),
       Json(JDict(<< <<Key("sent_hashes"), JDict(<< << Str(<<"a">>), JNum>> >>)>> >>)),
       Json(JDict(<< <<Key("sources"), JDict(<< <<Key("sites"), JList(<<>>)>> >>)>>,
                     Target(JStr(ChB)) >>)),
       Json(JDict(<< <<Key("sources"), JList(<<>>)>>, Target(JStr(ChB)) >>)),
       Json(JDict(<< <<Key("sources"), JList(<<>>)>> >>)),
       Json(JDict(<< <<Key("keywords"), JStr(Str(<<"b", "t", "c">>))>> >>)),
       Json(JDict(<< Target(JNum), Sources(JList(<<ChA>>)) >>)),
       Json(JDict(<< Target(JStr(ChB)), Sources(JStr(Str(<<"x">>) \o ChB)) >>)),
       Json(JDict(<< Target(JStr(ChB)), Sources(JNum) >>)),
       Json(JDict(<< Target(JStr(ChB)), Sources(JDict(<<>>)) >>)),
       Json(JDict(<< Target(JStr(ChB)), Sources(JDict(<< <<ChB, JNum>> >>)) >>)),
       Json(JDict(<< Target(JList(<<ChB>>)), Sources(JDict(<<>>)) >>)),
       Json(JDict(<< Target(JStr(ChB)),
                     <<Key("sources"), JDict(<< <<Key("channels"), JNull>> >>)>> >>)),
       Json(JDict(<< Target(JStr(ChB)), <<Key("sources"), JNull>> >>)),
       Json(JDict(<< Sources(JList(<<ChA, ChB>>)),
                     <<Key("keywords"), JList(<<>>)>>,
                     Target(JStr(ChB)),
                     <<Key("sent_hashes"), JList(<< Str(<<"h">>) >>)>> >>)) >>

LoadCalls == { [fn |-> "Config", doc |-> n] : n \in 1..Len(Documents) }

call_Config ==
    /\ call.fn = "Config"
    /\ Returns(Config_init(Documents[call.doc]))

\* the operator's text messages as handle_text receives them, main.py:509-641,
\* under a configuration with keywords and one without
HandleTextCalls ==
    { [fn |-> "handle_text", text |-> in[1], at |-> in[2], as |-> in[3],
       config |-> c] : in \in OperatorInputs, c \in PassConfigs }

call_handle_text ==
    /\ call.fn = "handle_text"
    /\ Returns(HandleTextStep(call.text, call.config, call.at, call.as))

\* the message parse_sites sends for a page text, main.py:191-198
message_text(text) ==
    LET snippet == Take(text, SnippetLen)
        message == snippet \o Str(<<".", ".", ".">>) IN
    IF Len(message) > MaxMessageLen
    THEN Take(message, MaxMessageLen) \o Str(<<".", ".", ".">>)
    ELSE message

\* page texts shorter than the snippet, of its length, and longer than the
\* snippet and than the longest message
MessageCalls ==
    { [fn |-> "message_text", text |-> [i \in 1..n |-> Ord["a"]]] :
        n \in {2, SnippetLen - 1, SnippetLen, SnippetLen + 1, MaxMessageLen + 1} }

call_message_text ==
    /\ call.fn = "message_text"
    /\ Returns(message_text(call.text))

\* messages with and without a text (one ends with a no-break space, one
\* with a lone surrogate), with
\* a caption (it ends with \x1f), with the caption None and without the
\* attribute
ContentCalls ==
    { [fn |-> "clean_content", msg |-> Msg(text, media, caption)] :
        text \in {<<>>, Str(<<"[", "x", "]", "(", "u", ")", "\r">>),
                  Str(<<"x">>) \o <<160>>, Str(<<"x">>) \o <<55357>>},
        media \in {"None", "Photo"},
        caption \in {None, NoCaption, <<>>, Str(<<"c", "a", "p">>) \o <<31>>} }

\* the body of the async for of parse_channels up to msg_hash, main.py:229-236:
\* a message with neither text nor media is skipped before its content is read
call_clean_content ==
    /\ call.fn = "clean_content"
    /\ Returns(IF ~Truthy(call.msg.text) /\ call.msg.media = "None"
               THEN [skipped |-> TRUE, raised |-> "none", clean_content |-> <<>>,
                     msg_hash |-> None]
               ELSE IF CaptionRaises(call.msg)
               THEN [skipped |-> FALSE, raised |-> "AttributeError",
                     clean_content |-> <<>>, msg_hash |-> None]
               ELSE IF ChannelHash(call.msg) = UnicodeEncodeError
               THEN [skipped |-> FALSE, raised |-> "UnicodeEncodeError",
                     clean_content |-> CleanContent(call.msg), msg_hash |-> None]
               ELSE [skipped |-> FALSE, raised |-> "none",
                     clean_content |-> CleanContent(call.msg),
                     msg_hash |-> ChannelHash(call.msg)])

InitFn ==
    /\ \/ call \in KeywordCalls
       \/ call \in CleanCalls
       \/ call \in LoadCalls
       \/ call \in HandleTextCalls
       \/ call \in MessageCalls
       \/ call \in ContentCalls
    /\ result = <<>>
    /\ config = DefaultConfig
    /\ disk = NoFile
    /\ loaded_hashes = {}
    /\ parsing_active = FALSE
    /\ parsing_task = 0
    /\ tasks = [t \in Slots |-> FreeTask]
    /\ handlers = [p \in PendingKinds |-> 0]
    /\ reply = "ok"
    /\ delivered = {}
    /\ recorded_texts = {}
    /\ flooded = None
    /\ ended = NoEnd
    /\ logged = LogOff

NextFn ==
    \/ call_contains_keywords
    \/ call_KeywordGate
    \/ call_clean_text
    \/ call_Config
    \/ call_handle_text
    \/ call_message_text
    \/ call_clean_content

SpecFn == InitFn /\ [][NextFn]_vars

-----------------------------------------------------------------------------
(* Properties *)

AliveSlots == {t \in Slots : Alive(tasks[t])}

Publishing(b) == b.pc \in {"send", "fallback"}

\* C1: no publisher call is made for an item whose fingerprint the ledger held
\* when the item was examined; in particular no call is in flight for a
\* channel item without media whose text was published and recorded before.
NoPublishOfLedgerItem ==
    \A t \in Slots :
        /\ tasks[t].site.pc = "send" => ~tasks[t].site.seen
        /\ Publishing(tasks[t].chan) =>
              /\ ~tasks[t].chan.seen
              /\ CurrentMsg(tasks[t].chan).media = "None" =>
                    CurrentMsg(tasks[t].chan).text \notin recorded_texts

\* a later scan has examined and skipped the no-media item recorded earlier
RecordedItemSkipped ==
    \E t \in Slots :
        /\ tasks[t].chan.pc = "iter"
        /\ tasks[t].chan.k >= 1
        /\ tasks[t].chan.seen
        /\ CurrentMsg(tasks[t].chan).media = "None"
        /\ CurrentMsg(tasks[t].chan).text \in recorded_texts

\* a step of task t that takes the next message of the channel it scans
ExaminesNext(t) ==
    /\ tasks[t].chan.pc = "iter"
    /\ tasks'[t].status = "gather"
    /\ tasks'[t].chan.i = tasks[t].chan.i
    /\ tasks'[t].chan.channel = tasks[t].chan.channel
    /\ tasks'[t].chan.k = tasks[t].chan.k + 1

\* C2: a publish that raises FloodWaitError adds nothing to the ledger, and
\* when a later scan examines the rate limited item, with its fingerprint
\* still not in the ledger and the keywords letting it pass, the publisher
\* is called for it again.
RateLimitedIsRetried ==
    [][\A t \in Slots :
          /\ (tasks[t].chan.pc = "send" /\ tasks'[t].chan.pc = "flood")
                => config'.sent_hashes = config.sent_hashes
          /\ (tasks[t].site.pc = "send" /\ tasks'[t].site.pc = "flood")
                => config'.sent_hashes = config.sent_hashes
          /\ (/\ ExaminesNext(t)
              /\ ChannelHash(CurrentMsg(tasks'[t].chan)) = flooded
              /\ flooded \notin config.sent_hashes
              /\ KeywordGate(CleanContent(CurrentMsg(tasks'[t].chan)), config.keywords))
                => tasks'[t].chan.pc = "send"
          /\ \A text \in Pages \ {<<>>} :
                (/\ SiteFetched(t, "ok", text)
                 /\ SiteHash(text) = flooded
                 /\ flooded \notin config.sent_hashes
                 /\ KeywordGate(text, config.keywords))
                   => tasks'[t].site.pc = "send"
      ]_vars

\* the publisher is being called again for an item that was rate limited
RetryInFlight ==
    \E t \in Slots :
        /\ tasks[t].chan.pc = "send"
        /\ ChannelHash(CurrentMsg(tasks[t].chan)) = flooded
        /\ flooded \notin config.sent_hashes

\* C3: at most one loop task is alive, and a Start handled while the loop is
\* running creates no task and changes nothing.
SingleFlight ==
    [][/\ Cardinality({t \in Slots : Alive(tasks'[t])}) <= 1
       /\ (parsing_active /\ start_parsing_handler) =>
             UNCHANGED <<config, disk, parsing_active, parsing_task, tasks, handlers>>
      ]_vars

\* a Start was refused as "already running" while the one loop is alive
StartRefusedWhileRunning ==
    reply = "already" /\ parsing_active /\ Cardinality(AliveSlots) = 1

\* C4: no loop task ends while one of its network calls is in flight.
StopNeverInterruptsCall == ~ended.interrupted

\* C5: a loop that a Stop found in the middle of a channel scan ends by
\* returning, after the 5 second wind-down sleep.
StopWindsDown ==
    (ended.how # "none" /\ ended.mid_scan) =>
        (ended.how = "returned" /\ ended.wind_down)

\* C6: a Start handled while no destination is configured leaves
\* parsing_active false and creates no loop task.
StartNeedsDestination ==
    [][(~Truthy(config.target_channel) /\ start_parsing_handler) =>
          /\ ~parsing_active'
          /\ \A t \in Slots : ~Alive(tasks'[t])
          /\ UNCHANGED <<parsing_active, parsing_task, tasks>>
      ]_vars

\* a Start was refused for the missing destination and the loop is idle
StartRefusedNoDestination ==
    /\ reply = "no_target"
    /\ ~Truthy(config.target_channel)
    /\ ~parsing_active
    /\ AliveSlots = {}

\* C7: the destination, if set, is not among the channel sources.
DestinationNotASource ==
    Truthy(config.target_channel) => ~InList(config.target_channel, config.channels)

\* C8: every fingerprint of the ledger that was not loaded at startup belongs
\* to an item whose publish call has returned without an exception.
RecordedOnlyAfterDelivery == (config.sent_hashes \ loaded_hashes) \subseteq delivered

\* the loop has recorded a fingerprint
FingerprintRecorded == config.sent_hashes \ loaded_hashes # {}

\* C9: no step removes a fingerprint from the ledger.
LedgerAppendOnly == [][config.sent_hashes \subseteq config'.sent_hashes]_vars

\* the ledger has grown twice, by fingerprints of a channel item and a site
LedgerGrown ==
    /\ ChannelHash(Feed(ChA)[1]) \in config.sent_hashes \ loaded_hashes
    /\ SiteHash(Str(<<"h", "i">>)) \in config.sent_hashes

\* C10: whenever another coroutine can run, config.json holds the in-memory
\* configuration.
PersistedIsCurrent ==
    config = IF disk.exists THEN disk.data ELSE DefaultConfig

\* C11: a failed fetch of a site (a status other than 200, or an exception)
\* leaves the task in its pass and the channel branch as it was, and the site
\* branch goes on with the next site of the list; a channel whose scan raises
\* leaves the site branch as it was, and the channel branch goes on with the
\* next channel.
FailureIsIsolated ==
    [][\A t \in Slots :
          /\ (/\ tasks[t].site.pc \in {"fetch", "read"}
              /\ logged' = Log("site_fetch", "error")) =>
                /\ tasks'[t].status = "gather"
                /\ tasks'[t].chan = tasks[t].chan
                /\ tasks[t].site.i < Len(config.sites) =>
                      /\ tasks'[t].site.pc = "fetch"
                      /\ tasks'[t].site.site = config.sites[tasks[t].site.i + 1]
          /\ (tasks[t].chan.pc = "iter" /\ logged'[1] = "scan") =>
                /\ tasks'[t].status = "gather"
                /\ tasks'[t].site = tasks[t].site
                /\ tasks[t].chan.i < Len(config.channels) =>
                      /\ tasks'[t].chan.pc = "iter"
                      /\ tasks'[t].chan.channel = config.channels[tasks[t].chan.i + 1]
      ]_vars

\* the first site has just failed: the second site is being fetched and the
\* channel branch of the same pass is still scanning
SiteFailedPassGoesOn ==
    \E t \in Slots :
        /\ logged = Log("site_fetch", "error")
        /\ tasks[t].status = "gather"
        /\ tasks[t].site.pc = "fetch"
        /\ tasks[t].site.site = SiteT
        /\ tasks[t].chan.pc \in {"iter", "send"}

\* C12: while no Stop is issued the loop task stays alive whatever the scans
\* log, every pass reaches its sleep and every sleep is followed by a pass.
LoopKeepsPassing ==
    /\ [](parsing_active /\ Alive(tasks[parsing_task]))
    /\ []<>(tasks[parsing_task].status = "sleep")
    /\ []<>(tasks[parsing_task].status = "gather")

\* a pass in which a publish was rate limited has reached the 60 second sleep
SleepsAfterRateLimit ==
    /\ parsing_active
    /\ tasks[parsing_task].status = "sleep"
    /\ tasks[parsing_task].sleep_time = SleepRunning
    /\ flooded # None

\* a and b are the same letter up to case
SameLetter(a, b) == LowerChar(a) = LowerChar(b)

\* keyword k occurs in text, the case of the letters put aside
OccursIn(k, text) ==
    \E i \in 0..(Len(text) - Len(k)) :
        \A j \in 1..Len(k) : SameLetter(text[i + j], k[j])

SomeKeywordOccurs(text, keywords) ==
    \E n \in 1..Len(keywords) : OccursIn(keywords[n], text)

\* C13 as stated: contains_keywords returns true for every text when the
\* keyword list is empty, and for a non-empty list exactly when some keyword
\* occurs in the text case-insensitively.
ContainsKeywordsPassesAll ==
    (call.fn = "contains_keywords" /\ Returned) =>
        result[1] = (call.keywords = <<>>
                     \/ SomeKeywordOccurs(call.text, call.keywords))

\* C14: the text clean_text returns holds no blacklist phrase, whatever the
\* case of its letters, and neither "http://" nor "https://".
SanitizedIsClean ==
    (call.fn = "clean_text" /\ Returned) =>
        /\ \A n \in 1..Len(call.blacklist) :
              call.blacklist[n] # <<>> => ~OccursIn(call.blacklist[n], result[1])
        /\ ~Contains(result[1], Str(<<"h", "t", "t", "p", ":", "/", "/">>))
        /\ ~Contains(result[1], Str(<<"h", "t", "t", "p", "s", ":", "/", "/">>))

\* C15 as stated: for a missing config.json and for every malformed content of
\* it (text that is not JSON, JSON of the wrong shape, missing or wrongly typed
\* fields) Config() completes without raising and holds the empty default
LoadNeverFatal ==
    (Returned /\ call.fn = "Config" /\ call.doc # Len(Documents))
        => result[1] = Completed(DefaultAttrs)

\* C16 as stated: when the operator answers the keywords prompt with "-",
\* handle_text empties the keyword list and saves the configuration
DashClearsKeywords ==
    (/\ Returned
     /\ call.fn = "handle_text"
     /\ Strip(call.text) = Str(<<"-">>)
     /\ ~call.at
     /\ ~call.as)
        => (result[1].cfg.keywords = <<>> /\ result[1].saved)

\* C17 as stated: after every publish attempt that raised FloodWaitError (the
\* send of a site item, the first send of a channel item or its plain-text
\* fallback) the branch that made it is asleep in asyncio.sleep(e.seconds)
RateLimitAlwaysSleeps ==
    /\ logged = Log("site_send", "FloodWaitError")
          => \E t \in Slots : tasks[t].site.pc = "flood"
    /\ (logged[1] \in {"send", "fallback"} /\ logged[2] = "FloodWaitError")
          => \E t \in Slots : tasks[t].chan.pc = "flood"

\* C18 as stated: a send that raised an exception other than FloodWaitError is
\* followed by one plain-text fallback send when the item's text is non-empty
\* (a site item's text always is) and by none when it is empty, for site and
\* channel items alike; the fallback records nothing and is not repeated
FallbackAfterPublishError ==
    [][\A t \in Slots :
         /\ (tasks[t].site.pc = "send" /\ logged' = Log("site_send", "Exception"))
               => tasks'[t].site.pc = "fallback"
         /\ (tasks[t].chan.pc = "send" /\ logged' = Log("send", "Exception"))
               => ((tasks'[t].chan.pc = "fallback")
                      <=> (CleanContent(CurrentMsg(tasks[t].chan)) # <<>>))
         /\ (tasks[t].chan.pc = "fallback" /\ tasks'[t].chan # tasks[t].chan)
               => (config' = config /\ tasks'[t].chan.pc # "fallback")]_vars

\* C19 as stated: an exception of the scan that is neither ChannelPrivateError
\* nor ChannelInvalidError, raised while a message is fetched or prepared,
\* skips that message only: when the scan window holds further messages the
\* scan of the same channel goes on with them
ScanErrorSkipsOneItem ==
    [][\A t \in Slots :
         LET b == tasks[t].chan IN
         (/\ b.pc = "iter"
          /\ logged' = Log("scan", "Exception")
          /\ b.k + 1 < Len(Take(Feed(b.channel), ScanLimit)))
            => (/\ tasks'[t].chan.pc = "iter"
                /\ tasks'[t].chan.i = b.i
                /\ tasks'[t].chan.channel = b.channel
                /\ tasks'[t].chan.k = b.k + 1)]_vars

\* C20: a publisher call is started only for an item that passes the keyword
\* filter, so a rejected item gets none; the step that examines a rejected
\* channel message moves to the next message and leaves the configuration, the
\* file and the deliveries as they were; and a message that passes the filter
\* (for instance after the keywords were changed) and whose fingerprint is not
\* in the ledger is published when a pass examines it
RejectedItemIsSkipped ==
    [][\A t \in Slots :
         LET b == tasks[t].chan
             after == tasks'[t].chan
             examined == /\ b.pc = "iter"
                         /\ after.channel = b.channel
                         /\ after.i = b.i
                         /\ after.k = b.k + 1 IN
         /\ (b.pc = "iter" /\ after.pc = "send")
               => KeywordGate(CleanContent(CurrentMsg(after)), config.keywords)
         /\ (tasks[t].site.pc = "read" /\ tasks'[t].site.pc = "send")
               => KeywordGate(tasks'[t].site.text, config.keywords)
         /\ (examined
             /\ ~KeywordGate(CleanContent(CurrentMsg(after)), config.keywords))
               => (/\ after.pc = "iter"
                   /\ config' = config
                   /\ disk' = disk
                   /\ delivered' = delivered)
         /\ (/\ examined
             /\ CurrentMsg(after).text # <<>> \/ CurrentMsg(after).media # "None"
             /\ KeywordGate(CleanContent(CurrentMsg(after)), config.keywords)
             /\ ChannelHash(CurrentMsg(after)) \notin config.sent_hashes)
               => after.pc = "send"]_vars

\* a message of the channel has just been examined and skipped: the filter
\* rejects it, and its fingerprint is neither in the ledger nor delivered
KeywordRejectedUnrecorded ==
    \E t \in Slots :
      LET b == tasks[t].chan IN
      /\ tasks[t].status = "gather"
      /\ b.pc = "iter"
      /\ b.k >= 1
      /\ logged = NoLog
      /\ config.keywords # <<>>
      /\ ~KeywordGate(CleanContent(CurrentMsg(b)), config.keywords)
      /\ ChannelHash(CurrentMsg(b)) \notin config.sent_hashes \cup delivered

\* C21 as stated: the message sent for a site item has at most 4000
\* characters; a page text that fits the snippet is sent as it is, without the
\* "..." marker, and a longer one is sent as its snippet followed by the marker
EllipsisOnlyWhenTruncated ==
    (Returned /\ call.fn = "message_text")
        => /\ Len(result[1]) <= MaxMessageLen
           /\ Len(call.text) <= SnippetLen => result[1] = call.text
           /\ Len(call.text) > SnippetLen
                 => result[1] = Take(call.text, SnippetLen) \o Str(<<".", ".", ".">>)

\* C22 as stated: when a send of a channel message returns without an
\* exception, be it the first send or the plain-text fallback after a failed
\* first send, the message's fingerprint is in the ledger once the step is
\* over, so that a later pass skips the message
DeliveredIsRecorded ==
    [][\A t \in Slots :
         LET b == tasks[t].chan IN
         (/\ b.pc \in {"send", "fallback"}
          /\ tasks'[t].chan # b
          /\ logged' = NoLog)
            => ChannelHash(CurrentMsg(b)) \in config'.sent_hashes]_vars

\* C23 as stated: no publisher call of parse_channels is made with a
\* destination equal to the channel the message was read from, also when
\* handle_text set the destination while the scan of that channel was
\* suspended in iter_messages
NoPublishToOwnSource ==
    \A t \in Slots :
        (tasks[t].status = "gather" /\ tasks[t].chan.pc \in {"send", "fallback"})
            => tasks[t].chan.dest # tasks[t].chan.channel

\* C24 as stated: whatever add-source and remove-source commands the operator
\* gives and however their handlers interleave, no channel occurs twice in
\* config.sources["channels"] and no site twice in config.sources["sites"]
SourcesHaveNoDuplicates ==
    /\ \A i, j \in 1..Len(config.channels) :
          config.channels[i] = config.channels[j] => i = j
    /\ \A i, j \in 1..Len(config.sites) :
          config.sites[i] = config.sites[j] => i = j

=============================================================================
